---- MODULE Spec2Model ----
(***************************************************************************)
(* Model of the FinGPT ledger store (src/src/services/database.py).        *)
(*                                                                         *)
(* The table `transactions` is a sequence of rows; a row's id is its       *)
(* position (INTEGER PRIMARY KEY AUTOINCREMENT, and no statement of the    *)
(* program deletes a row, so ids are 1..Len and never reused).             *)
(*                                                                         *)
(* Modelling conventions                                                   *)
(*  - Python's Optional[T] is Nil (None) or Some(v).                       *)
(*  - A text value whose characters matter (note, keyword) is a sequence   *)
(*    of one-character strings.                                            *)
(*  - A date is <<year, month, day>>; its isoformat() text compares as the *)
(*    tuple compares lexicographically (fixed-width, zero-padded fields).  *)
(*  - amount is REAL in the table; the model uses integers.                *)
(*  - created_at is CURRENT_TIMESTAMP, whose resolution is one second: the *)
(*    clock `now` counts seconds and several statements may run within     *)
(*    one second.                                                          *)
(*  - SQL leaves the order of rows with equal ORDER BY keys unspecified:   *)
(*    a query's result is any of the orders the keys allow.                *)
(***************************************************************************)
EXTENDS Integers, Sequences, FiniteSets, TLC

VARIABLES
  transactions,   \* the table: sequence of rows, id = index
  now,            \* wall clock, in seconds
  call,           \* the last DatabaseService call: its name, arguments, result
  turns           \* the text turns that began apart from their completion

vars == <<transactions, now, call, turns>>

----------------------------------------------------------------------------
(* Bounds *)

MaxRows == 3        \* rows the table may hold
MaxUpdRows == 2     \* rows the table may hold under SpecUpdate
MaxFindRows == 2    \* rows the table may hold under SpecFind
MaxRepRows == 2     \* rows the table may hold under SpecReport
MaxClock == 1       \* seconds the clock may advance
MaxCatRows == 3     \* rows the table may hold under SpecCategory
MaxExpRows == 2     \* rows the table may hold under SpecExport
MaxTurnRows == 2    \* rows the table may hold under SpecTurns
MaxTgtRows == 2     \* rows the table may hold under SpecTarget
MaxClrRows == 2     \* rows the table may hold under SpecClear
MaxQryRows == 2     \* rows the table may hold under SpecQuery
MaxResRows == 2     \* rows the table may hold under SpecResolve
MaxFldRows == 2     \* rows the table may hold under SpecFields
MaxFltRows == 2     \* rows the table may hold under SpecFlight
MaxTurns == 2       \* text turns that may begin under SpecFlight

----------------------------------------------------------------------------
(* Values *)

Nil == <<>>
Some(v) == <<v>>
IsSome(o) == o # Nil
Get(o) == o[1]

None == [none |-> TRUE]

INCOME == "thu"
EXPENSE == "chi"
TransactionType == {INCOME, EXPENSE}

\* date.today(), and the day before it
Today == <<2025, 1, 1>>
Yesterday == <<2024, 12, 31>>

Abs(a) == IF a < 0 THEN -a ELSE a

Min(a, b) == IF a <= b THEN a ELSE b

Ids(rs) == 1..Len(rs)

\* date.isoformat(): "YYYY-MM-DD"; text comparison of two such strings
IsoLE(d1, d2) ==
  \/ d1[1] < d2[1]
  \/ d1[1] = d2[1] /\ d1[2] < d2[2]
  \/ d1[1] = d2[1] /\ d1[2] = d2[2] /\ d1[3] <= d2[3]

IsoLT(d1, d2) == IsoLE(d1, d2) /\ d1 # d2

\* Transaction.from_row: the row with its id
FromRow(rs, i) == [id |-> i] @@ rs[i]

\* Live without "AND is_deleted = 0"
LiveWithDeleted(rs, user_id) ==
  {i \in 1..Len(rs) : rs[i].user_id = user_id}

\* the rows a statement with "WHERE user_id = ? AND is_deleted = 0" sees
Live(rs, user_id) ==
  {i \in Ids(rs) : rs[i].user_id = user_id /\ ~rs[i].is_deleted}

\* all orders of the set S that an ORDER BY allows; before is the strict
\* order of the keys, as the set of pairs <<x, y>> with x sorted before y
RECURSIVE Ordered(_, _)
Ordered(S, before) ==
  IF S = {} THEN {<<>>}
  ELSE UNION {{<<x>> \o rest : rest \in Ordered(S \ {x}, before)} :
                x \in {y \in S : \A z \in S : <<z, y>> \notin before}}

\* LIMIT n: a negative n is no limit
Limit(s, n) == IF n < 0 THEN s ELSE SubSeq(s, 1, Min(n, Len(s)))

----------------------------------------------------------------------------
(* CRUD *)

\* DbInsert that stores the amount with its sign
DbInsertSigned(rs, clk, user_id, amount, category, note, tx_type, tx_date) ==
  Append(rs, [user_id |-> user_id,
              amount |-> amount,
              category |-> category,
              note |-> note,
              type |-> tx_type,
              transaction_date |-> IF tx_date # <<>> THEN tx_date[1] ELSE Today,
              created_at |-> clk,
              updated_at |-> clk,
              is_deleted |-> FALSE])

\* insert: the new table; the returned lastrowid is Len of it
DbInsert(rs, clk, user_id, amount, category, note, tx_type, tx_date) ==
  LET d == IF IsSome(tx_date) THEN Get(tx_date) ELSE Today
  IN Append(rs, [user_id |-> user_id,
                 amount |-> Abs(amount),
                 category |-> category,
                 note |-> note,
                 type |-> tx_type,
                 transaction_date |-> d,
                 created_at |-> clk,
                 updated_at |-> clk,
                 is_deleted |-> FALSE])

\* UpdateSet that also writes the fields that were not supplied
UpdateSetAll(r, clk, amount, category, note) ==
  [r EXCEPT !.amount = IF amount # <<>> THEN Abs(amount[1]) ELSE 0,
            !.category = IF category # <<>> THEN category[1] ELSE "",
            !.note = note,
            !.updated_at = clk]

\* the SET clause of update: only the supplied fields, plus updated_at
UpdateSet(r, clk, amount, category, note) ==
  [r EXCEPT !.amount = IF IsSome(amount) THEN Abs(Get(amount)) ELSE @,
            !.category = IF IsSome(category) THEN Get(category) ELSE @,
            !.note = IF IsSome(note) THEN note ELSE @,
            !.updated_at = clk]

\* Matches without "AND user_id = ?"
MatchesAnyUser(rs, tx_id, user_id) ==
  /\ tx_id \in 1..Len(rs)
  /\ ~rs[tx_id].is_deleted

\* the WHERE clause of update and delete
Matches(rs, tx_id, user_id) ==
  /\ tx_id \in Ids(rs)
  /\ rs[tx_id].user_id = user_id
  /\ ~rs[tx_id].is_deleted

\* DbUpdate without the early return on an empty SET list
DbUpdateTouch(rs, clk, tx_id, user_id, amount, category, note) ==
  IF Matches(rs, tx_id, user_id)
  THEN [rows |-> [rs EXCEPT ![tx_id] = UpdateSet(@, clk, amount, category, note)],
        ret |-> TRUE]
  ELSE [rows |-> rs, ret |-> FALSE]

DbUpdate(rs, clk, tx_id, user_id, amount, category, note) ==
  IF ~IsSome(amount) /\ ~IsSome(category) /\ ~IsSome(note)
  THEN [rows |-> rs, ret |-> FALSE]
  ELSE IF Matches(rs, tx_id, user_id)
       THEN [rows |-> [rs EXCEPT ![tx_id] = UpdateSet(@, clk, amount, category, note)],
             ret |-> TRUE]
       ELSE [rows |-> rs, ret |-> FALSE]

\* DbDelete without "AND is_deleted = 0"
DbDeleteAgain(rs, clk, tx_id, user_id) ==
  IF tx_id \in 1..Len(rs) /\ rs[tx_id].user_id = user_id
  THEN [rows |-> [rs EXCEPT ![tx_id].is_deleted = TRUE, ![tx_id].updated_at = clk],
        ret |-> TRUE]
  ELSE [rows |-> rs, ret |-> FALSE]

DbDelete(rs, clk, tx_id, user_id) ==
  IF Matches(rs, tx_id, user_id)
  THEN [rows |-> [rs EXCEPT ![tx_id].is_deleted = TRUE, ![tx_id].updated_at = clk],
        ret |-> TRUE]
  ELSE [rows |-> rs, ret |-> FALSE]

\* ORDER BY created_at DESC
NewerCreated(rs, i, j) == rs[i].created_at > rs[j].created_at

ByCreated(rs, S) == {p \in S \X S : NewerCreated(rs, p[1], p[2])}

\* get_last: the results the query may give (LIMIT 1 of the ordered rows)
DbGetLast(rs, user_id) ==
  IF Live(rs, user_id) = {}
  THEN {None}
  ELSE {FromRow(rs, s[1]) :
          s \in Ordered(Live(rs, user_id), ByCreated(rs, Live(rs, user_id)))}

\* DbClearAll without "AND is_deleted = 0"
DbClearAllAgain(rs, clk, user_id) ==
  [rows |-> [i \in 1..Len(rs) |->
               IF rs[i].user_id = user_id
               THEN [rs[i] EXCEPT !.is_deleted = TRUE, !.updated_at = clk]
               ELSE rs[i]],
   ret |-> Cardinality({i \in 1..Len(rs) : rs[i].user_id = user_id})]

DbClearAll(rs, clk, user_id) ==
  [rows |-> [i \in Ids(rs) |->
               IF i \in Live(rs, user_id)
               THEN [rs[i] EXCEPT !.is_deleted = TRUE, !.updated_at = clk]
               ELSE rs[i]],
   ret |-> Cardinality(Live(rs, user_id))]

DbGetStats(rs, user_id) == Cardinality(Live(rs, user_id))

----------------------------------------------------------------------------
(* find *)

\* SQLite's LIKE compares ASCII letters without regard to case
Fold(c) ==
  CASE c = "A" -> "a"
    [] c = "B" -> "b"
    [] OTHER -> c

\* SQLite's LIKE: % matches any run of characters, _ any one character
RECURSIVE LikeMatch(_, _)
LikeMatch(pat, str) ==
  IF pat = <<>> THEN str = <<>>
  ELSE IF Head(pat) = "%"
       THEN \E k \in 0..Len(str) : LikeMatch(Tail(pat), SubSeq(str, k + 1, Len(str)))
       ELSE IF str = <<>> THEN FALSE
            ELSE /\ Head(pat) = "_" \/ Fold(Head(pat)) = Fold(Head(str))
                 /\ LikeMatch(Tail(pat), Tail(str))

\* "note LIKE ?" with f"%{keyword}%"; a NULL note matches nothing
NoteLike(note, keyword) ==
  /\ IsSome(note)
  /\ LikeMatch(<<"%">> \o keyword \o <<"%">>, Get(note))

\* the WHERE clause of find: a condition is added only for a truthy argument
FindWhere(rs, i, user_id, keyword, category, tx_date) ==
  /\ i \in Live(rs, user_id)
  /\ (IsSome(keyword) /\ Get(keyword) # <<>>) => NoteLike(rs[i].note, Get(keyword))
  /\ (IsSome(category) /\ Get(category) # "") => rs[i].category = Get(category)
  /\ IsSome(tx_date) => rs[i].transaction_date = Get(tx_date)

\* find: the results the query may give
DbFind(rs, user_id, keyword, category, tx_date, limit) ==
  LET S == {i \in Ids(rs) : FindWhere(rs, i, user_id, keyword, category, tx_date)}
  IN {Limit([k \in 1..Len(s) |-> FromRow(rs, s[k])], limit) :
        s \in Ordered(S, ByCreated(rs, S))}

\* get_history(user, limit) is find(user, limit=limit)
DbGetHistory(rs, user_id, limit) == DbFind(rs, user_id, Nil, Nil, Nil, limit)

----------------------------------------------------------------------------
(* Reports *)

RECURSIVE SumAmount(_, _)
SumAmount(rs, S) ==
  IF S = {} THEN 0
  ELSE LET i == CHOOSE x \in S : TRUE
       IN rs[i].amount + SumAmount(rs, S \ {i})

\* Between with the end of the range excluded
BetweenExclusive(d, start, end) == IsoLE(start, d) /\ IsoLT(d, end)

\* "transaction_date BETWEEN ? AND ?" on the isoformat texts
Between(d, start, end) == IsoLE(start, d) /\ IsoLE(d, end)

InReport(rs, user_id, start, end) ==
  {i \in Live(rs, user_id) : Between(rs[i].transaction_date, start, end)}

\* grouping by category alone
GroupByCategory(rs, S) ==
  {[category |-> c, type |-> rs[CHOOSE i \in S : rs[i].category = c].type,
    total |-> SumAmount(rs, {i \in S : rs[i].category = c}),
    count |-> Cardinality({i \in S : rs[i].category = c})] :
   c \in {rs[i].category : i \in S}}

\* "GROUP BY category, type": one entry per group, SUM(amount) and COUNT(*)
GroupBy(rs, S) ==
  {[category |-> g[1], type |-> g[2],
    total |-> SumAmount(rs, {i \in S : rs[i].category = g[1] /\ rs[i].type = g[2]}),
    count |-> Cardinality({i \in S : rs[i].category = g[1] /\ rs[i].type = g[2]})] :
   g \in {<<rs[i].category, rs[i].type>> : i \in S}}

\* "ORDER BY transaction_date DESC, created_at DESC"
ReportBefore(rs, i, j) ==
  \/ IsoLT(rs[j].transaction_date, rs[i].transaction_date)
  \/ /\ rs[i].transaction_date = rs[j].transaction_date
     /\ NewerCreated(rs, i, j)

\* get_report: the reports the four queries may give
DbGetReport(rs, user_id, start, end) ==
  LET S == InReport(rs, user_id, start, end)
      income == SumAmount(rs, {i \in S : rs[i].type = INCOME})
      expense == SumAmount(rs, {i \in S : rs[i].type = EXPENSE})
  IN {[start_date |-> start,
       end_date |-> end,
       total_income |-> income,
       total_expense |-> expense,
       balance |-> income - expense,
       by_category |-> cats,
       transactions |-> [k \in 1..Len(s) |-> FromRow(rs, s[k])]] :
      cats \in Ordered(GroupBy(rs, S),
                        {p \in GroupBy(rs, S) \X GroupBy(rs, S) : p[1].total > p[2].total}),
      s \in Ordered(S, {p \in S \X S : ReportBefore(rs, p[1], p[2])})}

----------------------------------------------------------------------------
(* Utils *)

\* the header line of the CSV text
Header == [header |-> TRUE]

\* one data line of the CSV text; a NULL or empty note prints as ''
CsvLine(r) ==
  [transaction_date |-> r.transaction_date, type |-> r.type,
   category |-> r.category, amount |-> r.amount,
   note |-> IF IsSome(r.note) THEN Get(r.note) ELSE <<>>]

\* export_csv: the texts (sequences of lines) the query may give
DbExportCsv(rs, user_id) ==
  {<<Header>> \o [k \in 1..Len(s) |-> CsvLine(rs[s[k]])] :
     s \in Ordered(Live(rs, user_id),
                   {p \in Live(rs, user_id) \X Live(rs, user_id) :
                      IsoLT(rs[p[2]].transaction_date, rs[p[1]].transaction_date)})}

----------------------------------------------------------------------------
(* Inputs *)

Users == {1, 2}
TxIds == 1..(MaxRows + 1)

----------------------------------------------------------------------------
(* Actions: one per DatabaseService call *)

Init ==
  /\ transactions = <<>>
  /\ now = 0
  /\ call = [op |-> "init"]
  /\ turns = <<>>

Tick ==
  /\ now < MaxClock
  /\ now' = now + 1
  /\ UNCHANGED <<transactions, call, turns>>

Insert(user_id, amount, category, note, tx_type, tx_date) ==
  /\ Len(transactions) < MaxRows
  /\ transactions' = DbInsert(transactions, now, user_id, amount, category, note,
                              tx_type, tx_date)
  /\ call' = [op |-> "insert", user_id |-> user_id, amount |-> amount,
              category |-> category, note |-> note, tx_type |-> tx_type,
              tx_date |-> tx_date, ret |-> Len(transactions')]
  /\ UNCHANGED <<now, turns>>

Update(tx_id, user_id, amount, category, note) ==
  LET r == DbUpdate(transactions, now, tx_id, user_id, amount, category, note)
  IN /\ transactions' = r.rows
     /\ call' = [op |-> "update", tx_id |-> tx_id, user_id |-> user_id,
                 amount |-> amount, category |-> category, note |-> note,
                 ret |-> r.ret]
     /\ UNCHANGED <<now, turns>>

Delete(tx_id, user_id) ==
  LET r == DbDelete(transactions, now, tx_id, user_id)
  IN /\ transactions' = r.rows
     /\ call' = [op |-> "delete", tx_id |-> tx_id, user_id |-> user_id,
                 ret |-> r.ret]
     /\ UNCHANGED <<now, turns>>

ClearAll(user_id) ==
  LET r == DbClearAll(transactions, now, user_id)
  IN /\ transactions' = r.rows
     /\ call' = [op |-> "clear_all", user_id |-> user_id, ret |-> r.ret]
     /\ UNCHANGED <<now, turns>>

GetLast(user_id) ==
  /\ \E tx \in DbGetLast(transactions, user_id) :
       call' = [op |-> "get_last", user_id |-> user_id, ret |-> tx]
  /\ UNCHANGED <<transactions, now, turns>>

GetStats(user_id) ==
  /\ call' = [op |-> "get_stats", user_id |-> user_id,
              ret |-> DbGetStats(transactions, user_id)]
  /\ UNCHANGED <<transactions, now, turns>>

Find(user_id, keyword, category, tx_date, limit) ==
  /\ \E res \in DbFind(transactions, user_id, keyword, category, tx_date, limit) :
       call' = [op |-> "find", user_id |-> user_id, keyword |-> keyword,
                category |-> category, tx_date |-> tx_date, limit |-> limit,
                ret |-> res]
  /\ UNCHANGED <<transactions, now, turns>>

GetReport(user_id, start, end) ==
  /\ \E rep \in DbGetReport(transactions, user_id, start, end) :
       call' = [op |-> "get_report", user_id |-> user_id, ret |-> rep]
  /\ UNCHANGED <<transactions, now, turns>>

ExportCsv(user_id) ==
  /\ \E csv \in DbExportCsv(transactions, user_id) :
       call' = [op |-> "export_csv", user_id |-> user_id, ret |-> csv]
  /\ UNCHANGED <<transactions, now, turns>>

----------------------------------------------------------------------------
(* The ledger under insert/update/delete/clear_all, get_last and get_stats *)

Next ==
  \/ \E u \in Users : Insert(u, -2, "Khác", Some(<<"a">>), EXPENSE, Nil)
  \/ \E i \in TxIds, u \in Users : Update(i, u, Some(-1), Nil, Nil)
  \/ \E i \in TxIds, u \in Users : Delete(i, u)
  \/ \E u \in Users : ClearAll(u)
  \/ \E u \in Users : GetLast(u)
  \/ \E u \in Users : GetStats(u)

Spec == Init /\ [][Next]_vars

----------------------------------------------------------------------------
(* update with every combination of supplied fields; rows of user 1, which *)
(* user 2 also tries to update                                             *)

NextUpdate ==
  \/ /\ Len(transactions) < MaxUpdRows
     /\ Insert(1, -2, "Khác", Some(<<"a">>), EXPENSE, Nil)
  \/ \E i \in 1..(MaxUpdRows + 1), a \in {Nil, Some(-1)},
        c \in {Nil, Some("Thu khác")}, n \in {Nil, Some(<<>>)} :
       Update(i, 1, a, c, n)
  \/ \E i \in 1..(MaxUpdRows + 1), n \in {Nil, Some(<<>>)} :
       Update(i, 2, Nil, Nil, n)
  \/ \E i \in 1..MaxUpdRows : Delete(i, 1)

SpecUpdate == Init /\ [][NextUpdate]_vars

----------------------------------------------------------------------------
(* get_last under a running clock: inserts within one second and across    *)
(* seconds                                                                 *)

NextClock ==
  \/ Tick
  \/ \E u \in Users : Insert(u, 1, "Khác", Some(<<"a">>), EXPENSE, Nil)
  \/ \E i \in TxIds, u \in Users : Delete(i, u)
  \/ \E u \in Users : GetLast(u)

SpecClock == Init /\ [][NextClock]_vars

----------------------------------------------------------------------------
(* find over notes, categories and limits                                  *)

NextFind ==
  \/ Tick
  \/ /\ Len(transactions) < MaxFindRows
     /\ \E u \in Users, c \in {"Khác", "Thu khác"},
           n \in {Nil, Some(<<"A", "b">>)} :
          Insert(u, 1, c, n, EXPENSE, Nil)
  \/ \E i \in 1..MaxFindRows : Delete(i, 1)
  \/ \E kw \in {Nil, Some(<<"a">>), Some(<<"A", "_">>)}, c \in {Nil, Some("Khác")},
        d \in {Nil, Some(Today), Some(Yesterday)}, l \in {-1, 1, 10} :
       Find(1, kw, c, d, l)

SpecFind == Init /\ [][NextFind]_vars

----------------------------------------------------------------------------
(* reports and exports over amounts, types and dates; user 2 owns rows of  *)
(* one kind                                                                *)

NextReport ==
  \/ /\ Len(transactions) < MaxRepRows
     /\ \/ \E a \in {-2, 1}, t \in TransactionType, d \in {Nil, Some(Yesterday)} :
             Insert(1, a, "Khác", Some(<<"a">>), t, d)
        \/ Insert(2, 1, "Khác", Nil, EXPENSE, Nil)
  \/ \E i \in 1..MaxRepRows : Update(i, 1, Some(-1), Nil, Nil)
  \/ \E i \in 1..MaxRepRows : Delete(i, 1)
  \/ \E u \in Users, start \in {Yesterday, Today}, end \in {Yesterday, Today} :
       GetReport(u, start, end)
  \/ \E u \in Users : ExportCsv(u)

SpecReport == Init /\ [][NextReport]_vars

----------------------------------------------------------------------------
(* reports over rows of several (category, type) groups                    *)

NextCategory ==
  \/ /\ Len(transactions) < MaxCatRows
     /\ \/ \E a \in {1, 2} : Insert(1, a, "Khác", Nil, EXPENSE, Nil)
        \/ Insert(1, 1, "Khác", Nil, INCOME, Nil)
        \/ Insert(1, 2, "Thu khác", Nil, INCOME, Nil)
        \/ Insert(1, 1, "Khác", Nil, EXPENSE, Some(Yesterday))
        \/ Insert(2, 1, "Khác", Nil, EXPENSE, Nil)
  \/ \E i \in 1..MaxCatRows : Delete(i, 1)
  \/ \E u \in Users, start \in {Yesterday, Today} : GetReport(u, start, Today)

SpecCategory == Init /\ [][NextCategory]_vars

----------------------------------------------------------------------------
(* Properties of the ledger *)

\* the step is a call of op (every call but a repeated one changes `call`)
IsCall(op) ==
  /\ call'.op = op
  /\ call.op # op \/ call' # call \/ transactions' # transactions

\* Under Spec the read paths find, get_report and export_csv are not steps:
\* their results are computed in every state, for these arguments
ReadFinds == {<<Nil, Nil, Nil, -1>>, <<Nil, Nil, Nil, 10>>,
              <<Some(<<"a">>), Some("Khác"), Some(Today), 10>>}
ReadRanges == {<<Yesterday, Today>>, <<Today, Today>>}

\* the ids a read of user u can show, over every read path
Shown(rs, u) ==
  UNION {
    {tx.id : tx \in DbGetLast(rs, u) \ {None}},
    UNION {{res[k].id : k \in 1..Len(res)} :
             res \in UNION {DbFind(rs, u, f[1], f[2], f[3], f[4]) : f \in ReadFinds}},
    UNION {{rep.transactions[k].id : k \in 1..Len(rep.transactions)} :
             rep \in UNION {DbGetReport(rs, u, r[1], r[2]) : r \in ReadRanges}}
  }

\* the rows export_csv and get_stats of user u count
Counted(rs, u) ==
  {Len(csv) - 1 : csv \in DbExportCsv(rs, u)} \cup {DbGetStats(rs, u)}

\* the amounts a report of user u adds up
Totalled(rs, u) ==
  {rep.total_income + rep.total_expense :
     rep \in UNION {DbGetReport(rs, u, r[1], r[2]) : r \in ReadRanges}}

\* C1, the reads: no read path (get_last, find, get_report, export_csv,
\* get_stats) shows or counts a soft-deleted row.
DeletedNeverShown ==
  \A u \in Users :
    /\ \A i \in Shown(transactions, u) : ~transactions[i].is_deleted
    /\ Counted(transactions, u) =
         {Cardinality({i \in Ids(transactions) :
                         transactions[i].user_id = u /\ ~transactions[i].is_deleted})}
    /\ \A t \in Totalled(transactions, u) :
         t <= SumAmount(transactions,
                        {i \in Ids(transactions) : ~transactions[i].is_deleted})

\* C1, the writes: no step removes a row, gives a row another id or owner,
\* or clears the deleted mark of a row.
DeletedStaysDeleted ==
  /\ Len(transactions') >= Len(transactions)
  /\ \A i \in Ids(transactions) :
       /\ transactions'[i].user_id = transactions[i].user_id
       /\ transactions[i].is_deleted => transactions'[i].is_deleted

\* C1: soft-delete is permanent and non-destructive: a row once marked deleted
\* stays marked under every later insert/update/delete/clear_all, is shown by
\* no read path, and the stored rows never shrink.
C1_SoftDeletePermanent == [][DeletedStaysDeleted]_vars /\ []DeletedNeverShown

\* C1 witness: get_last returns a row of a user whose later-inserted row was
\* deleted before.
C1_Witness ==
  /\ call.op = "get_last"
  /\ call.ret # None
  /\ \E i \in Ids(transactions) :
       /\ i > call.ret.id
       /\ transactions[i].user_id = call.user_id
       /\ transactions[i].is_deleted

\* C3, the writes: update/delete/clear_all issued with user A change no row
\* owned by another user, whatever the transaction id.
ForeignRowsUntouched ==
  (IsCall("update") \/ IsCall("delete") \/ IsCall("clear_all")) =>
    \A i \in Ids(transactions) :
      transactions[i].user_id # call'.user_id => transactions'[i] = transactions[i]

\* C3, the reads: what get_last/find/get_report/export_csv of A show and
\* count are rows owned by A.
ForeignRowsNeverShown ==
  \A u \in Users :
    /\ \A i \in Shown(transactions, u) : transactions[i].user_id = u
    /\ \A n \in Counted(transactions, u) :
         n <= Cardinality({i \in Ids(transactions) : transactions[i].user_id = u})
    /\ \A t \in Totalled(transactions, u) :
         t <= SumAmount(transactions,
                        {i \in Ids(transactions) : transactions[i].user_id = u})

\* C3: user isolation: a write of user A changes no row of user B, and a read
\* of A returns and counts no row of B.
C3_UserIsolation == [][ForeignRowsUntouched]_vars /\ []ForeignRowsNeverShown

\* C3 witness: user A's update with the id of a live row of user B was refused.
C3_Witness ==
  /\ call.op = "update"
  /\ IsSome(call.amount)
  /\ call.tx_id \in Ids(transactions)
  /\ transactions[call.tx_id].user_id # call.user_id
  /\ ~transactions[call.tx_id].is_deleted
  /\ ~call.ret

\* C6: delete(id, user) returns true exactly when the row exists, is the
\* user's and is not deleted, and then marks only that row deleted; otherwise
\* it returns false and changes nothing; a repeated delete returns false.
C6_DeleteStep ==
  IsCall("delete") =>
    LET id == call'.tx_id
        u == call'.user_id
        found == /\ id \in Ids(transactions)
                 /\ transactions[id].user_id = u
                 /\ ~transactions[id].is_deleted
    IN /\ call'.ret = found
       /\ Len(transactions') = Len(transactions)
       /\ found =>
            /\ transactions'[id].is_deleted
            /\ [transactions'[id] EXCEPT !.is_deleted = FALSE,
                                         !.updated_at = transactions[id].updated_at]
                 = transactions[id]
            /\ \A j \in Ids(transactions) \ {id} : transactions'[j] = transactions[j]
       /\ ~found => transactions' = transactions
       /\ (call.op = "delete" /\ call.ret /\ call.tx_id = id /\ call.user_id = u)
            => ~call'.ret

C6_Delete == [][C6_DeleteStep]_vars

\* C6 witness: the same delete was issued twice; the second returned false.
C6_Witness ==
  /\ call.op = "delete"
  /\ ~call.ret
  /\ call.tx_id \in Ids(transactions)
  /\ transactions[call.tx_id].user_id = call.user_id
  /\ transactions[call.tx_id].is_deleted
  /\ \E j \in Ids(transactions) :
       transactions[j].user_id = call.user_id /\ ~transactions[j].is_deleted

\* C7: clear_all(user) returns the number of the user's rows that were not
\* deleted at the call; right after it find(user) is empty, get_last(user) is
\* nothing, and another clear_all returns 0.
C7_ClearAllStep ==
  IsCall("clear_all") =>
    LET u == call'.user_id
    IN /\ call'.ret = Cardinality({i \in Ids(transactions) :
                                     transactions[i].user_id = u
                                     /\ ~transactions[i].is_deleted})
       /\ \A f \in ReadFinds : DbFind(transactions', u, f[1], f[2], f[3], f[4]) = {<<>>}
       /\ DbGetLast(transactions', u) = {None}
       /\ DbClearAll(transactions', now', u).ret = 0
       /\ (call.op = "clear_all" /\ call.user_id = u) => call'.ret = 0

C7_ClearAll == [][C7_ClearAllStep]_vars

\* C7 witness: clear_all returned 2 for a user with three rows, one of which
\* had been deleted before.
C7_Witness ==
  /\ call.op = "clear_all"
  /\ call.ret = 2
  /\ Cardinality({i \in Ids(transactions) :
                    transactions[i].user_id = call.user_id}) = 3

----------------------------------------------------------------------------
(* Properties of update *)

\* C4: a successful update changes, on the row with the given id, only the
\* supplied fields among amount/category/note (to the supplied values, the
\* amount to its magnitude) and updated_at; user_id, type, transaction_date,
\* created_at, is_deleted and the unsupplied fields keep their values, and
\* every other row is unchanged.
C4_UpdateStep ==
  (IsCall("update") /\ call'.ret) =>
    LET id == call'.tx_id
        old == transactions[id]
        new == transactions'[id]
    IN /\ id \in Ids(transactions)
       /\ Len(transactions') = Len(transactions)
       /\ new.user_id = old.user_id
       /\ new.type = old.type
       /\ new.transaction_date = old.transaction_date
       /\ new.created_at = old.created_at
       /\ new.is_deleted = old.is_deleted
       /\ new.updated_at = now'
       /\ new.amount = IF IsSome(call'.amount) THEN Abs(Get(call'.amount))
                       ELSE old.amount
       /\ new.category = IF IsSome(call'.category) THEN Get(call'.category)
                         ELSE old.category
       /\ new.note = IF IsSome(call'.note) THEN call'.note ELSE old.note
       /\ \A j \in Ids(transactions) \ {id} : transactions'[j] = transactions[j]

C4_UpdateFrame == [][C4_UpdateStep]_vars

\* C4 witness: an update that supplied only the note succeeded on the second
\* of two rows, whose category an earlier update had changed.
C4_Witness ==
  /\ call.op = "update"
  /\ call.ret
  /\ call.tx_id = 2
  /\ ~IsSome(call.amount) /\ ~IsSome(call.category) /\ IsSome(call.note)
  /\ transactions[2].category = "Thu khác"
  /\ transactions[2].amount = 2
  /\ transactions[1].note = Some(<<"a">>)

\* C5: update returns true exactly when at least one field is supplied and
\* the row exists, is the caller's and is not deleted; when it returns false
\* the table is unchanged.
C5_UpdateStep ==
  IsCall("update") =>
    LET id == call'.tx_id
        supplied == IsSome(call'.amount) \/ IsSome(call'.category)
                      \/ IsSome(call'.note)
        found == /\ id \in Ids(transactions)
                 /\ transactions[id].user_id = call'.user_id
                 /\ ~transactions[id].is_deleted
    IN /\ call'.ret = (supplied /\ found)
       /\ ~call'.ret => transactions' = transactions

C5_UpdateResult == [][C5_UpdateStep]_vars

\* C5 witness: the owner's update, with a field supplied, of a row that is
\* already soft-deleted returned false.
C5_Witness ==
  /\ call.op = "update"
  /\ ~call.ret
  /\ IsSome(call.category)
  /\ call.tx_id \in Ids(transactions)
  /\ transactions[call.tx_id].user_id = call.user_id
  /\ transactions[call.tx_id].is_deleted

----------------------------------------------------------------------------
(* Properties of the stored amount *)

\* C2, the writes: insert stores the magnitude of the amount it is given, a
\* successful update that supplies an amount stores its magnitude, and no
\* other step changes a stored amount or type.
AmountLastSupplied ==
  /\ IsCall("insert") =>
       /\ transactions'[call'.ret].amount = Abs(call'.amount)
       /\ transactions'[call'.ret].type = call'.tx_type
  /\ (IsCall("update") /\ call'.ret /\ IsSome(call'.amount)) =>
       transactions'[call'.tx_id].amount = Abs(Get(call'.amount))
  /\ \A i \in Ids(transactions) :
       /\ transactions'[i].type = transactions[i].type
       /\ ~(IsCall("update") /\ call'.ret /\ IsSome(call'.amount) /\ call'.tx_id = i)
            => transactions'[i].amount = transactions[i].amount

\* C2, the states: every stored amount is >= 0 and every type is thu or chi.
AmountIsMagnitude ==
  \A i \in Ids(transactions) :
    /\ transactions[i].amount >= 0
    /\ transactions[i].type \in {"thu", "chi"}

\* C2: after any sequence of insert and update calls with amounts of any
\* sign, every stored amount is >= 0 and is the absolute value of the amount
\* last supplied for the row; direction is carried by type, thu or chi.
C2_AmountMagnitude == [][AmountLastSupplied]_vars /\ []AmountIsMagnitude

\* C2 witness: a row inserted with amount -2 as income holds 1 after an
\* update with amount -1.
C2_Witness ==
  /\ call.op = "update"
  /\ call.ret
  /\ call.amount = Some(-1)
  /\ transactions[call.tx_id].amount = 1
  /\ transactions[call.tx_id].type = "thu"
  /\ \E i \in Ids(transactions) : transactions[i].amount = 2

----------------------------------------------------------------------------
(* Properties of get_last *)

\* the user's non-deleted rows, and the one created last (ids are assigned
\* in creation order)
LiveIds(u) ==
  {i \in Ids(transactions) :
     transactions[i].user_id = u /\ ~transactions[i].is_deleted}

LastCreated(u) == CHOOSE i \in LiveIds(u) : \A j \in LiveIds(u) : j <= i

\* C8, the round trip: get_last right after an insert of the same user
\* returns the transaction just inserted.
InsertThenGetLast ==
  (call.op = "insert" /\ IsCall("get_last") /\ call'.user_id = call.user_id) =>
    /\ call'.ret # None
    /\ call'.ret.id = call.ret
    /\ call'.ret.amount = Abs(call.amount)
    /\ call'.ret.category = call.category
    /\ call'.ret.transaction_date =
         (IF IsSome(call.tx_date) THEN Get(call.tx_date) ELSE Today)

\* C8, every call: get_last returns the most recently created non-deleted
\* transaction of the user, or nothing when there is none.
GetLastIsLastCreated ==
  call.op = "get_last" =>
    IF LiveIds(call.user_id) = {}
    THEN call.ret = None
    ELSE call.ret # None /\ call.ret.id = LastCreated(call.user_id)

\* C8: insert followed immediately by get_last for the same user returns the
\* transaction just inserted (also when the user has other transactions
\* created just before), and get_last always returns the most recently
\* created non-deleted transaction.
C8_GetLastRoundTrip == [][InsertThenGetLast]_vars /\ []GetLastIsLastCreated

----------------------------------------------------------------------------
(* Properties of find *)

\* kw occurs in str as a run of equal characters
Contains(str, kw) ==
  \E k \in 0..(Len(str) - Len(kw)) : SubSeq(str, k + 1, k + Len(kw)) = kw

\* C9, the filter: every returned row is the user's, not deleted, has a note
\* that contains the keyword (case-sensitively) and the given category and
\* date.
FindOnlyMatching ==
  call.op = "find" =>
    \A k \in 1..Len(call.ret) :
      LET r == transactions[call.ret[k].id]
      IN /\ call.ret[k] = FromRow(transactions, call.ret[k].id)
         /\ r.user_id = call.user_id
         /\ ~r.is_deleted
         /\ IsSome(call.keyword) =>
              IsSome(r.note) /\ Contains(Get(r.note), Get(call.keyword))
         /\ IsSome(call.category) => r.category = Get(call.category)
         /\ IsSome(call.tx_date) => r.transaction_date = Get(call.tx_date)

\* C9, the order: a row created later comes first.
FindNewestFirst ==
  call.op = "find" =>
    \A k, l \in 1..Len(call.ret) : k < l => call.ret[k].id > call.ret[l].id

\* C9, the bound: no more rows than the limit, whatever the limit.
FindWithinLimit ==
  call.op = "find" =>
    Len(call.ret) <= (IF call.limit < 0 THEN 0 ELSE call.limit)

\* C9: find returns only the user's non-deleted rows whose note contains the
\* keyword as a case-sensitive substring and whose category/date equal the
\* given ones, newest-created first, and never more rows than the limit, for
\* any limit value.
C9_Find == FindOnlyMatching /\ FindNewestFirst /\ FindWithinLimit

----------------------------------------------------------------------------
(* Properties of get_report *)

\* a date as a day count that grows with the calendar
Ordinal(d) == (d[1] * 12 + (d[2] - 1)) * 31 + d[3]

\* the user's non-deleted rows of one type dated within [start, end]
RowsInRange(u, start, end, t) ==
  {i \in Ids(transactions) :
     /\ transactions[i].user_id = u
     /\ ~transactions[i].is_deleted
     /\ transactions[i].type = t
     /\ Ordinal(start) <= Ordinal(transactions[i].transaction_date)
     /\ Ordinal(transactions[i].transaction_date) <= Ordinal(end)}

\* (get_report is one step: no write falls between its four queries)
\* C10: get_report(user, start, end) returns as total_income and
\* total_expense the sums of the amounts of the user's non-deleted income and
\* expense rows dated within [start, end], both ends included, as balance
\* their difference, and as transactions exactly those rows; with no such
\* row it returns 0, 0, 0, no category and no transaction.
C10_Report ==
  call.op = "get_report" =>
    LET rep == call.ret
        inc == RowsInRange(call.user_id, rep.start_date, rep.end_date, INCOME)
        exp == RowsInRange(call.user_id, rep.start_date, rep.end_date, EXPENSE)
    IN /\ rep.total_income = SumAmount(transactions, inc)
       /\ rep.total_expense = SumAmount(transactions, exp)
       /\ rep.balance = rep.total_income - rep.total_expense
       /\ Len(rep.transactions) = Cardinality(inc \cup exp)
       /\ {rep.transactions[k].id : k \in 1..Len(rep.transactions)} = inc \cup exp
       /\ \A k \in 1..Len(rep.transactions) :
            rep.transactions[k] = FromRow(transactions, rep.transactions[k].id)
       /\ (inc \cup exp = {}) =>
            /\ rep.total_income = 0 /\ rep.total_expense = 0 /\ rep.balance = 0
            /\ rep.by_category = <<>>
            /\ rep.transactions = <<>>

\* C10 witness: a report over [yesterday, today] adds up an income row of
\* yesterday and an expense row of today, with a negative balance.
C10_Witness ==
  /\ call.op = "get_report"
  /\ call.ret.start_date = Yesterday
  /\ call.ret.end_date = Today
  /\ call.ret.total_income = 1
  /\ call.ret.total_expense = 2
  /\ call.ret.balance = -1
  /\ Len(call.ret.transactions) = 2
  /\ call.ret.transactions[2].transaction_date = Yesterday

----------------------------------------------------------------------------
(* Properties of the category aggregation of get_report *)

\* the user's non-deleted rows of one category and type dated within
\* [start, end]
RowsInGroup(u, start, end, c, t) ==
  {i \in RowsInRange(u, start, end, t) : transactions[i].category = c}

RECURSIVE SumTotals(_)
SumTotals(cats) ==
  IF cats = <<>> THEN 0 ELSE Head(cats).total + SumTotals(Tail(cats))

\* C11: in every report by_category holds exactly one entry for each
\* (category, type) pair that occurs among the user's non-deleted rows of the
\* range and no other entry; an entry's total is the sum and its count the
\* number of those rows; the entries are in non-increasing order of total;
\* and the totals add up to total_income + total_expense.
C11_ByCategory ==
  call.op = "get_report" =>
    LET rep == call.ret
        cats == rep.by_category
        u == call.user_id
    IN /\ \A k \in 1..Len(cats) :
            LET g == RowsInGroup(u, rep.start_date, rep.end_date,
                                 cats[k].category, cats[k].type)
            IN /\ g # {}
               /\ cats[k].total = SumAmount(transactions, g)
               /\ cats[k].count = Cardinality(g)
       /\ \A t \in TransactionType :
            \A i \in RowsInRange(u, rep.start_date, rep.end_date, t) :
              \E k \in 1..Len(cats) :
                cats[k].category = transactions[i].category /\ cats[k].type = t
       /\ \A k1, k2 \in 1..Len(cats) :
            (cats[k1].category = cats[k2].category /\ cats[k1].type = cats[k2].type)
              => k1 = k2
       /\ \A k \in 1..(Len(cats) - 1) : cats[k].total >= cats[k + 1].total
       /\ SumTotals(cats) = rep.total_income + rep.total_expense

\* C11 witness: a report of today over two expense rows and one income row of
\* the same category has two entries, the expenses (3 in 2 rows) first.
C11_Witness ==
  /\ call.op = "get_report"
  /\ call.ret.start_date = Today
  /\ Len(call.ret.by_category) = 2
  /\ call.ret.by_category[1] =
       [category |-> "Khác", type |-> EXPENSE, total |-> 3, count |-> 2]
  /\ call.ret.by_category[2] =
       [category |-> "Khác", type |-> INCOME, total |-> 1, count |-> 1]

----------------------------------------------------------------------------
(* The calendar: date.today() - timedelta(days=n), weekday(), replace(day=1) *)

IsLeap(y) == (y % 4 = 0 /\ y % 100 # 0) \/ y % 400 = 0

DaysInMonth(y, m) ==
  CASE m = 2 -> IF IsLeap(y) THEN 29 ELSE 28
    [] m \in {4, 6, 9, 11} -> 30
    [] OTHER -> 31

PrevDay(d) ==
  IF d[3] > 1 THEN <<d[1], d[2], d[3] - 1>>
  ELSE IF d[2] > 1 THEN <<d[1], d[2] - 1, DaysInMonth(d[1], d[2] - 1)>>
  ELSE <<d[1] - 1, 12, 31>>

NextDay(d) ==
  IF d[3] < DaysInMonth(d[1], d[2]) THEN <<d[1], d[2], d[3] + 1>>
  ELSE IF d[2] < 12 THEN <<d[1], d[2] + 1, 1>>
  ELSE <<d[1] + 1, 1, 1>>

\* d - timedelta(days=n)
RECURSIVE MinusDays(_, _)
MinusDays(d, n) ==
  IF n = 0 THEN d
  ELSE IF n > 0 THEN MinusDays(PrevDay(d), n - 1)
  ELSE MinusDays(NextDay(d), n + 1)

RECURSIVE DaysBeforeMonth(_, _)
DaysBeforeMonth(y, m) ==
  IF m = 1 THEN 0 ELSE DaysBeforeMonth(y, m - 1) + DaysInMonth(y, m - 1)

\* date.toordinal(): days since 0001-01-01, which is day 1
ToOrdinal(d) ==
  LET y == d[1] - 1
  IN 365 * y + (y \div 4) - (y \div 100) + (y \div 400)
       + DaysBeforeMonth(d[1], d[2]) + d[3]

\* date.weekday(): Monday is 0
Weekday(d) == (ToOrdinal(d) + 6) % 7

WeekStart(d) == MinusDays(d, Weekday(d))
MonthStart(d) == <<d[1], d[2], 1>>

\* get_daily_report, get_weekly_report, get_monthly_report
DbGetDailyReport(rs, user_id) == DbGetReport(rs, user_id, Today, Today)
DbGetWeeklyReport(rs, user_id) == DbGetReport(rs, user_id, WeekStart(Today), Today)
DbGetMonthlyReport(rs, user_id) == DbGetReport(rs, user_id, MonthStart(Today), Today)

----------------------------------------------------------------------------
(* Message text: a sequence of characters. A character of Latin-1 is the   *)
(* string of that character, another character the string of its code      *)
(* point ("U+1EAD")                                                        *)

Whitespace == {" ", "\t", "\n", "\r", "\f"}

RECURSIVE LStrip(_)
LStrip(s) ==
  IF s # <<>> /\ Head(s) \in Whitespace THEN LStrip(Tail(s)) ELSE s

RECURSIVE RStrip(_)
RStrip(s) ==
  IF s # <<>> /\ s[Len(s)] \in Whitespace THEN RStrip(SubSeq(s, 1, Len(s) - 1))
  ELSE s

\* str.strip()
Strip(s) == RStrip(LStrip(s))

UpperCase ==
  <<"A", "B", "C", "D", "E", "F", "G", "H", "I", "J", "K", "L", "M", "N", "O",
    "P", "Q", "R", "S", "T", "U", "V", "W", "X", "Y", "Z", "Á", "U+1EAC">>
LowerCase ==
  <<"a", "b", "c", "d", "e", "f", "g", "h", "i", "j", "k", "l", "m", "n", "o",
    "p", "q", "r", "s", "t", "u", "v", "w", "x", "y", "z", "á", "U+1EAD">>

LowerChar(c) ==
  IF \E k \in 1..Len(UpperCase) : UpperCase[k] = c
  THEN LowerCase[CHOOSE k \in 1..Len(UpperCase) : UpperCase[k] = c]
  ELSE c

\* str.lower()
Lower(s) == [k \in 1..Len(s) |-> LowerChar(s[k])]

\* sub in s
In(sub, s) ==
  \E k \in 0..(Len(s) - Len(sub)) : SubSeq(s, k + 1, k + Len(sub)) = sub

\* s.count("\n")
RECURSIVE CountNewlines(_)
CountNewlines(s) ==
  IF s = <<>> THEN 0
  ELSE (IF Head(s) = "\n" THEN 1 ELSE 0) + CountNewlines(Tail(s))

Confirm == <<"c", "o", "n", "f", "i", "r", "m">>
XacNhan == <<"x", "á", "c", " ", "n", "h", "U+1EAD", "n">>

----------------------------------------------------------------------------
(* The resolver's JSON object and the action parsed from it *)

\* a key of the JSON object is absent, null, or holds a value
Absent == <<>>
JNull == <<"null">>
JVal(v) == <<"value", v>>

Keys == {"action", "amount", "category", "type", "date_offset", "time_of_day",
         "transaction_id", "keyword", "report_type", "limit", "message"}

\* the JSON object {}
EmptyData == [k \in Keys |-> Absent]

\* data.get(k): None for an absent key and for null
DictGet(d, k) == IF Len(d[k]) = 2 THEN Some(d[k][2]) ELSE Nil

\* data.get(k, default): the default for an absent key only
DictGetDefault(d, k, default) ==
  IF Len(d[k]) = 0 THEN Some(default) ELSE DictGet(d, k)

ActionType == {"insert", "update", "delete", "query", "report", "export",
               "clear", "undo", "help", "unknown"}
ReportType == {"day", "week", "month"}

\* an exception that leaves the function
Raised(e) == [raised |-> e]
IsRaised(x) == "raised" \in DOMAIN x

\* truth values of an Optional[int], an Optional[str], an Optional text
TruthyInt(o) == IsSome(o) /\ Get(o) # 0
TruthyStr(o) == IsSome(o) /\ Get(o) # ""
TruthyText(o) == IsSome(o) /\ Get(o) # <<>>

\* AIAction(...): the fields of the dataclass
AIAction(action, amount, category, tx_type, date_offset, time_of_day, target_date, transaction_id, keyword, report_type, limit, message) ==
  [action |-> action, amount |-> amount, category |-> category,
   tx_type |-> tx_type, date_offset |-> date_offset,
   time_of_day |-> time_of_day, target_date |-> target_date,
   transaction_id |-> transaction_id, keyword |-> keyword,
   report_type |-> report_type, limit |-> limit, message |-> message]

\* _parse_action: the AIAction, the AttributeError of data.get on a value
\* that is no dict, or the TypeError of timedelta(days=None)
ParseAction(data) ==
  LET action_str == DictGetDefault(data, "action", "unknown")
      action == IF IsSome(action_str) /\ Get(action_str) \in ActionType
                THEN Get(action_str) ELSE "unknown"
      type == DictGet(data, "type")
      tx_type == IF TruthyStr(type)
                 THEN (IF Get(type) \in TransactionType THEN type ELSE Some(EXPENSE))
                 ELSE Nil
      rtype == DictGet(data, "report_type")
      report_type == IF TruthyStr(rtype)
                     THEN (IF Get(rtype) \in ReportType THEN rtype ELSE Some("day"))
                     ELSE Nil
      date_offset == DictGetDefault(data, "date_offset", 0)
  IN IF "nondict" \in DOMAIN data THEN Raised("AttributeError")
     ELSE IF date_offset = Nil THEN Raised("TypeError")
     ELSE AIAction(action, DictGet(data, "amount"), DictGet(data, "category"),
                   tx_type, Get(date_offset), DictGet(data, "time_of_day"),
                   Some(MinusDays(Today, Get(date_offset))),
                   DictGet(data, "transaction_id"), DictGet(data, "keyword"),
                   report_type, DictGetDefault(data, "limit", 10),
                   DictGet(data, "message"))

----------------------------------------------------------------------------
(* _extract_json: json.loads and the two regular expressions, on a text of *)
(* characters. json.loads is modelled for numbers without fraction, for    *)
(* strings without escapes, null, arrays of those, and objects whose       *)
(* members hold those; the words of strings are the ones of Spell          *)

JsonWhitespace == {" ", "\t", "\n", "\r"}
DigitChars == <<"0", "1", "2", "3", "4", "5", "6", "7", "8", "9">>
IsDigit(c) == \E d \in 1..10 : DigitChars[d] = c
DigitValue(c) == (CHOOSE d \in 1..10 : DigitChars[d] = c) - 1

\* the spelling of the words that strings of the response may hold
Spell ==
  [action |-> <<"a", "c", "t", "i", "o", "n">>,
   amount |-> <<"a", "m", "o", "u", "n", "t">>,
   category |-> <<"c", "a", "t", "e", "g", "o", "r", "y">>,
   type |-> <<"t", "y", "p", "e">>,
   date_offset |-> <<"d", "a", "t", "e", "_", "o", "f", "f", "s", "e", "t">>,
   time_of_day |-> <<"t", "i", "m", "e", "_", "o", "f", "_", "d", "a", "y">>,
   transaction_id |-> <<"t", "r", "a", "n", "s", "a", "c", "t", "i", "o", "n",
                        "_", "i", "d">>,
   keyword |-> <<"k", "e", "y", "w", "o", "r", "d">>,
   report_type |-> <<"r", "e", "p", "o", "r", "t", "_", "t", "y", "p", "e">>,
   limit |-> <<"l", "i", "m", "i", "t">>,
   message |-> <<"m", "e", "s", "s", "a", "g", "e">>,
   insert |-> <<"i", "n", "s", "e", "r", "t">>,
   help |-> <<"h", "e", "l", "p">>,
   query |-> <<"q", "u", "e", "r", "y">>,
   delete |-> <<"d", "e", "l", "e", "t", "e">>,
   unknown |-> <<"u", "n", "k", "n", "o", "w", "n">>,
   pay |-> <<"p", "a", "y">>,
   thu |-> <<"t", "h", "u">>,
   chi |-> <<"c", "h", "i">>,
   Luong |-> <<"L", "u", "o", "n", "g">>]

\* the word a string of the response spells ("" for the empty string)
Word(chars) ==
  IF chars = <<>> THEN ""
  ELSE IF \E w \in DOMAIN Spell : Spell[w] = chars
  THEN CHOOSE w \in DOMAIN Spell : Spell[w] = chars
  ELSE "?"

\* the outcome of reading a value at a position: failure, or the value and
\* the position after it
NoValue == [ok |-> FALSE]
Value(val, next) == [ok |-> TRUE, val |-> val, next |-> next]

\* a value that is not an object (data.get is an AttributeError)
NonDict == [nondict |-> TRUE]

\* the one element of a set of one element: {F(x) : x \in {e}} computes e
\* once, as the code does for a local variable
Only(S) == CHOOSE x \in S : TRUE

\* the first position from i on that holds no JSON whitespace
SkipWs(s, i) ==
  CHOOSE j \in i..(Len(s) + 1) :
    /\ \A k \in i..(j - 1) : s[k] \in JsonWhitespace
    /\ j > Len(s) \/ s[j] \notin JsonWhitespace

\* the position of the quote that closes a string, 0 when there is none
ClosingQuote(s, i) ==
  LET stop == {"\"", "\\", "\n"}
  IN IF \A j \in i..Len(s) : s[j] \notin stop THEN 0
     ELSE Only({IF s[j] = "\"" THEN j ELSE 0 :
                  j \in {j \in i..Len(s) :
                           /\ s[j] \in stop
                           /\ \A k \in i..(j - 1) : s[k] \notin stop}})

JsonStringTo(s, i, q) ==
  IF q = 0 THEN NoValue ELSE Value(SubSeq(s, i + 1, q - 1), q + 1)

JsonString(s, i) ==
  IF i > Len(s) \/ s[i] # "\"" THEN NoValue
  ELSE Only({JsonStringTo(s, i, q) : q \in {ClosingQuote(s, i + 1)}})

\* the digits from a position on: the number they spell after acc
RECURSIVE JsonDigits(_, _, _)
JsonDigits(s, i, acc) ==
  IF i <= Len(s) /\ IsDigit(s[i])
  THEN Only({JsonDigits(s, j, a) : j \in {i + 1},
                                   a \in {10 * acc + DigitValue(s[i])}})
  ELSE Value(acc, i)

JsonSigned(neg, n) == Value(IF neg THEN 0 - n.val ELSE n.val, n.next)

\* "-"? ("0" | digit+): a leading 0 ends the number
JsonNumber(s, i) ==
  LET neg == i <= Len(s) /\ s[i] = "-"
      j == IF neg THEN i + 1 ELSE i
  IN IF j > Len(s) \/ ~IsDigit(s[j]) THEN NoValue
     ELSE IF s[j] = "0" THEN JsonSigned(neg, Value(0, j + 1))
     ELSE Only({JsonSigned(neg, n) : n \in {JsonDigits(s, j, 0)}})

JsonNullAt(s, i) ==
  i + 3 <= Len(s) /\ SubSeq(s, i, i + 3) = <<"n", "u", "l", "l">>

\* the string str or, when there is none, the number num, as the value of
\* the key of an object
JsonStringOrNumber(str, num, key) ==
  IF str.ok
  THEN Value(JVal(IF key = "keyword" THEN str.val ELSE Word(str.val)), str.next)
  ELSE IF num.ok THEN Value(JVal(num.val), num.next)
  ELSE NoValue

\* a number, a string or null, as the value of the key of an object
JsonScalar(s, i, key) ==
  IF JsonNullAt(s, i) THEN Value(JNull, i + 4)
  ELSE Only({JsonStringOrNumber(str, num, key) :
               str \in {JsonString(s, i)}, num \in {JsonNumber(s, i)}})

\* the members of an object from a key on, added to the dict acc; a key
\* that _parse_action never reads is dropped
RECURSIVE JsonMembers(_, _, _)

\* after a member, at position e: the end of the object or the next member
JsonAfterMember(s, e, acc) ==
  IF e > Len(s) THEN NoValue
  ELSE IF s[e] = "}" THEN Value(acc, e + 1)
  ELSE IF s[e] = ","
  THEN Only({JsonMembers(s, i, acc) : i \in {SkipWs(s, e + 1)}})
  ELSE NoValue

\* the member of the key with the value v
JsonMember(s, key, v, acc) ==
  IF ~v.ok THEN NoValue
  ELSE Only({JsonAfterMember(s, e, acc2) :
               e \in {SkipWs(s, v.next)},
               acc2 \in {IF key \in Keys THEN [acc EXCEPT ![key] = v.val]
                         ELSE acc}})

\* after the key k, at position c: the colon and the value
JsonAfterKey(s, k, c, acc) ==
  IF c > Len(s) \/ s[c] # ":" THEN NoValue
  ELSE Only({JsonMember(s, Word(k.val), v, acc) :
               v \in {JsonScalar(s, SkipWs(s, c + 1), Word(k.val))}})

JsonKey(s, k, acc) ==
  IF ~k.ok THEN NoValue
  ELSE Only({JsonAfterKey(s, k, c, acc) : c \in {SkipWs(s, k.next)}})

JsonMembers(s, i, acc) ==
  Only({JsonKey(s, k, acc) : k \in {JsonString(s, i)}})

JsonObjectFrom(s, j) ==
  IF j <= Len(s) /\ s[j] = "}" THEN Value(EmptyData, j + 1)
  ELSE JsonMembers(s, j, EmptyData)

JsonObject(s, i) ==
  IF i > Len(s) \/ s[i] # "{" THEN NoValue
  ELSE Only({JsonObjectFrom(s, j) : j \in {SkipWs(s, i + 1)}})

\* the elements of an array from an element on
RECURSIVE JsonElements(_, _)

JsonAfterElement(s, e) ==
  IF e > Len(s) THEN NoValue
  ELSE IF s[e] = "]" THEN Value(NonDict, e + 1)
  ELSE IF s[e] = ","
  THEN Only({JsonElements(s, i) : i \in {SkipWs(s, e + 1)}})
  ELSE NoValue

JsonElement(s, v) ==
  IF ~v.ok THEN NoValue
  ELSE Only({JsonAfterElement(s, e) : e \in {SkipWs(s, v.next)}})

JsonElements(s, i) ==
  Only({JsonElement(s, v) : v \in {JsonScalar(s, i, "")}})

JsonArrayFrom(s, j) ==
  IF j <= Len(s) /\ s[j] = "]" THEN Value(NonDict, j + 1)
  ELSE JsonElements(s, j)

JsonArray(s, i) ==
  IF i > Len(s) \/ s[i] # "[" THEN NoValue
  ELSE Only({JsonArrayFrom(s, j) : j \in {SkipWs(s, i + 1)}})

\* an object, an array or a scalar at a position
JsonValue(s, i) ==
  IF i <= Len(s) /\ s[i] = "{" THEN JsonObject(s, i)
  ELSE IF i <= Len(s) /\ s[i] = "[" THEN JsonArray(s, i)
  ELSE Only({IF v.ok THEN Value(NonDict, v.next) ELSE NoValue :
               v \in {JsonScalar(s, i, "")}})

\* the value v read from s is the whole of s
JsonWhole(s, v) == IF v.ok /\ SkipWs(s, v.next) > Len(s) THEN v ELSE NoValue

\* json.loads: NoValue is the JSONDecodeError
JsonLoads(s) ==
  Only({JsonWhole(s, v) : v \in {Only({JsonValue(s, i) : i \in {SkipWs(s, 1)}})}})

\* \s* from a position on
SkipSpace(s, i) ==
  CHOOSE j \in i..(Len(s) + 1) :
    /\ \A k \in i..(j - 1) : s[k] \in Whitespace
    /\ j > Len(s) \/ s[j] \notin Whitespace

\* the character ` (written by its code point)
Backtick == "U+0060"

FenceAt(s, i) ==
  /\ i + 2 <= Len(s)
  /\ s[i] = Backtick /\ s[i + 1] = Backtick /\ s[i + 2] = Backtick

\* where the group of ```(?:json)?\s*([\s\S]*?)\s*``` starts for a fence at i
GroupStart(s, i) ==
  IF i + 6 <= Len(s) /\ SubSeq(s, i + 3, i + 6) = <<"j", "s", "o", "n">>
  THEN SkipSpace(s, i + 7) ELSE SkipSpace(s, i + 3)

\* the positions where the lazy group may end: \s*``` follows
GroupEnds(s, g) == {q \in g..(Len(s) + 1) : FenceAt(s, SkipSpace(s, q))}

\* the fences at which the expression matches
Fences(s) ==
  {i \in 1..Len(s) : FenceAt(s, i) /\ GroupEnds(s, GroupStart(s, i)) # {}}

LeastOf(S) == CHOOSE x \in S : \A y \in S : x <= y
GreatestOf(S) == CHOOSE x \in S : \A y \in S : y <= x

\* the shortest group from g on
FencedGroupFrom(s, g) ==
  Only({Value(SubSeq(s, g, q - 1), q) : q \in {LeastOf(GroupEnds(s, g))}})

\* the leftmost match among the fences
FencedGroupIn(s, fences) ==
  IF fences = {} THEN NoValue
  ELSE Only({FencedGroupFrom(s, g) : g \in {GroupStart(s, LeastOf(fences))}})

\* re.search(...).group(1) of the fenced expression: the leftmost match and
\* its shortest group; NoValue is the AttributeError of None.group
FencedGroup(s) == Only({FencedGroupIn(s, fences) : fences \in {Fences(s)}})

\* the first { to the last } after it
BraceGroupIn(s, opens, closes) ==
  IF opens = {} THEN NoValue
  ELSE IF \A j \in closes : j < LeastOf(opens) THEN NoValue
  ELSE Value(SubSeq(s, LeastOf(opens), GreatestOf(closes)),
             GreatestOf(closes) + 1)

\* re.search(r'\{[\s\S]*\}', text).group(0)
BraceGroup(s) ==
  Only({BraceGroupIn(s, opens, closes) :
          opens \in {{i \in 1..Len(s) : s[i] = "{"}},
          closes \in {{j \in 1..Len(s) : s[j] = "}"}}})

\* json.loads of a group that a regular expression found
LoadsGroup(g) == IF g.ok THEN JsonLoads(g.val) ELSE NoValue

\* the three attempts of _extract_json, in order
Attempts(text) ==
  <<Only({JsonLoads(s) : s \in {Strip(text)}}),
    Only({LoadsGroup(g) : g \in {FencedGroup(text)}}),
    Only({LoadsGroup(g) : g \in {BraceGroup(text)}})>>

\* the value of the first attempt that does not raise, else
\* {"action": "unknown"}
FirstJson(tries) ==
  IF tries[1].ok THEN tries[1].val
  ELSE IF tries[2].ok THEN tries[2].val
  ELSE IF tries[3].ok THEN tries[3].val
  ELSE [EmptyData EXCEPT !["action"] = JVal("unknown")]

\* _extract_json
ExtractJson(text) == Only({FirstJson(tries) : tries \in {Attempts(text)}})

\* the response of the model as its text
Text(chars) == [text |-> chars]

\* parse: the request to the model raises, or the JSON value of its text (or
\* the JSON object given in place of the text) is parsed
Parse(resp) ==
  IF IsRaised(resp) THEN resp
  ELSE IF "text" \in DOMAIN resp THEN ParseAction(ExtractJson(resp.text))
  ELSE ParseAction(resp)

\* parse_image: as parse, with the action kind set to INSERT
ParseImage(resp) ==
  IF IsRaised(Parse(resp)) THEN Parse(resp)
  ELSE [Parse(resp) EXCEPT !.action = "insert"]

----------------------------------------------------------------------------
(* The handlers of a turn. A handler gives the outcomes the turn may have: *)
(* the table after it, the messages sent to the user in order (an edit of  *)
(* a message counts as a message), and the exception that left the handler *)

Out(rows, sent) == [rows |-> rows, sent |-> sent, raised |-> Nil]
Crash(rows, sent, e) == [rows |-> rows, sent |-> sent, raised |-> Some(e)]

Reply(kind) == [kind |-> kind]

\* the limit of a history listing
QueryCap == 50

\* the note of a photo transaction, "Từ bill"
FromBill == <<"T", "U+1EEB", " ", "b", "i", "l", "l">>

\* _handle_insert that rejects a missing amount only
HandleInsertAnyAmount(rs, clk, user_id, text, action) ==
  IF action.amount = Nil
  THEN {Out(rs, <<Reply("amount_not_understood")>>)}
  ELSE LET rows == DbInsert(rs, clk, user_id, Get(action.amount), "Khác",
                            Some(Strip(text)), EXPENSE, action.target_date)
       IN {Out(rows, <<[kind |-> "inserted", tx_id |-> Len(rows)]>>)}

\* _handle_insert
HandleInsert(rs, clk, user_id, text, action) ==
  IF ~TruthyInt(action.amount) \/ Get(action.amount) <= 0
  THEN {Out(rs, <<Reply("amount_not_understood")>>)}
  ELSE LET category == IF TruthyStr(action.category) THEN Get(action.category)
                       ELSE "Khác"
           tx_type == IF IsSome(action.tx_type) THEN Get(action.tx_type)
                      ELSE EXPENSE
           rows == DbInsert(rs, clk, user_id, Get(action.amount), category,
                            Some(Strip(text)), tx_type, action.target_date)
       IN {Out(rows, <<[kind |-> "inserted", tx_id |-> Len(rows),
                        category |-> category, amount |-> Get(action.amount),
                        expense |-> action.tx_type = Some(EXPENSE),
                        dated |-> action.date_offset > 0
                                    \/ TruthyStr(action.time_of_day)]>>)}

\* _handle_update: the ids the target may resolve to (None is Nil)
UpdateTarget(rs, user_id, action, last_tx) ==
  LET found == IF ~TruthyInt(action.transaction_id) /\ TruthyText(action.keyword)
               THEN {IF txs # <<>> THEN Some(txs[1].id) ELSE action.transaction_id :
                       txs \in DbFind(rs, user_id, action.keyword, Nil, Nil, 1)}
               ELSE {action.transaction_id}
  IN {IF ~TruthyInt(tx_id) /\ "id" \in DOMAIN last_tx THEN Some(last_tx.id)
      ELSE tx_id : tx_id \in found}

\* _handle_update
HandleUpdate(rs, clk, user_id, action, last_tx) ==
  {IF ~TruthyInt(tx_id)
   THEN Out(rs, <<Reply("update_not_found")>>)
   ELSE IF "note" \notin DOMAIN action
   THEN Crash(rs, <<>>, "AttributeError")
   ELSE LET r == DbUpdate(rs, clk, Get(tx_id), user_id, action.amount,
                          action.category, action.note)
        IN IF r.ret
           THEN Out(r.rows, <<[kind |-> "updated", tx_id |-> Get(tx_id)]>>)
           ELSE Out(r.rows, <<Reply("cannot_update")>>) :
   tx_id \in UpdateTarget(rs, user_id, action, last_tx)}

\* DeleteTarget that falls back to the first row of the table
DeleteTargetFirst(action, last_tx) ==
  IF TruthyInt(action.transaction_id) THEN action.transaction_id
  ELSE IF "id" \in DOMAIN last_tx THEN Some(last_tx.id)
  ELSE Some(1)

\* _handle_delete: the id the target resolves to (None is Nil)
DeleteTarget(action, last_tx) ==
  IF TruthyInt(action.transaction_id) THEN action.transaction_id
  ELSE IF "id" \in DOMAIN last_tx THEN Some(last_tx.id)
  ELSE Nil

\* _handle_delete
HandleDelete(rs, clk, user_id, action, last_tx) ==
  LET tx_id == DeleteTarget(action, last_tx)
  IN IF ~TruthyInt(tx_id)
     THEN {Out(rs, <<Reply("delete_not_found")>>)}
     ELSE LET r == DbDelete(rs, clk, Get(tx_id), user_id)
          IN IF r.ret
             THEN {Out(r.rows, <<[kind |-> "deleted", tx_id |-> Get(tx_id)]>>)}
             ELSE {Out(r.rows, <<Reply("cannot_delete")>>)}

\* _handle_query: min(None, 50) is a TypeError
HandleQuery(rs, user_id, action) ==
  IF action.limit = Nil
  THEN {Crash(rs, <<>>, "TypeError")}
  ELSE {IF txs = <<>>
        THEN Out(rs, <<Reply("no_transactions")>>)
        ELSE Out(rs, <<[kind |-> "history", txs |-> txs]>>) :
        txs \in DbGetHistory(rs, user_id, Min(Get(action.limit), QueryCap))}

\* _handle_report
HandleReport(rs, user_id, action) ==
  LET title == IF action.report_type = Some("week") THEN "week"
               ELSE IF action.report_type = Some("month") THEN "month"
               ELSE "day"
      reports == IF title = "week" THEN DbGetWeeklyReport(rs, user_id)
                 ELSE IF title = "month" THEN DbGetMonthlyReport(rs, user_id)
                 ELSE DbGetDailyReport(rs, user_id)
  IN {IF report.transactions = <<>>
      THEN Out(rs, <<[kind |-> "no_transactions_in", title |-> title]>>)
      ELSE Out(rs, <<[kind |-> "report", title |-> title,
                      total_income |-> report.total_income,
                      total_expense |-> report.total_expense,
                      balance |-> report.balance,
                      by_category |-> Limit(report.by_category, 5)]>>) :
      report \in reports}

\* csv.count("\n"): the line breaks between the lines and those within notes
RECURSIVE CsvNewlines(_)
CsvNewlines(csv) ==
  IF Len(csv) <= 1 THEN 0
  ELSE 1 + CountNewlines(csv[Len(csv)].note)
         + CsvNewlines(SubSeq(csv, 1, Len(csv) - 1))

\* _handle_export
HandleExport(rs, user_id) ==
  {IF CsvNewlines(csv) <= 1
   THEN Out(rs, <<Reply("no_data")>>)
   ELSE Out(rs, <<[kind |-> "document", csv |-> csv]>>) :
   csv \in DbExportCsv(rs, user_id)}

\* _handle_clear without the test of the text
HandleClearAlways(rs, clk, user_id, text) ==
  LET r == DbClearAll(rs, clk, user_id)
  IN {Out(r.rows, <<[kind |-> "cleared", count |-> r.ret]>>)}

\* _handle_clear
HandleClear(rs, clk, user_id, text) ==
  IF ~In(Confirm, Lower(text)) /\ ~In(XacNhan, Lower(text))
  THEN {Out(rs, <<Reply("confirm_prompt")>>)}
  ELSE LET r == DbClearAll(rs, clk, user_id)
       IN {Out(r.rows, <<[kind |-> "cleared", count |-> r.ret]>>)}

\* handle_text after "last_tx = await db.get_last(user_id)"
Dispatch(rs, clk, user_id, text, resp, last_tx) ==
  LET action == Parse(resp)
  IN IF IsRaised(action) THEN {Out(rs, <<Reply("not_understood")>>)}
     ELSE CASE action.action = "insert" ->
                 HandleInsert(rs, clk, user_id, text, action)
            [] action.action = "update" ->
                 HandleUpdate(rs, clk, user_id, action, last_tx)
            [] action.action \in {"delete", "undo"} ->
                 HandleDelete(rs, clk, user_id, action, last_tx)
            [] action.action = "query" -> HandleQuery(rs, user_id, action)
            [] action.action = "report" -> HandleReport(rs, user_id, action)
            [] action.action = "export" -> HandleExport(rs, user_id)
            [] action.action = "clear" -> HandleClear(rs, clk, user_id, text)
            [] action.action = "help" -> {Out(rs, <<Reply("help")>>)}
            [] OTHER -> {Out(rs, <<[kind |-> "unknown",
                                    message |-> action.message]>>)}

\* handle_photo after "msg = await message.answer(...)"
PhotoOutcomes(rs, clk, user_id, resp) ==
  LET action == ParseImage(resp)
      reading == <<Reply("reading_bill")>>
  IN IF IsRaised(action) THEN {Crash(rs, reading, action.raised)}
     ELSE IF ~TruthyInt(action.amount) \/ Get(action.amount) <= 0
     THEN {Out(rs, reading \o <<Reply("cannot_read")>>)}
     ELSE IF "note" \notin DOMAIN action
     THEN {Crash(rs, reading, "AttributeError")}
     ELSE LET category == IF TruthyStr(action.category) THEN Get(action.category)
                          ELSE "Khác"
              note == IF TruthyText(action.note) THEN action.note
                      ELSE Some(FromBill)
              tx_type == IF IsSome(action.tx_type) THEN Get(action.tx_type)
                         ELSE EXPENSE
              rows == DbInsert(rs, clk, user_id, Get(action.amount), category,
                               note, tx_type, Nil)
          IN {Out(rows, reading \o <<[kind |-> "inserted_from_bill",
                                      tx_id |-> Len(rows), category |-> category,
                                      amount |-> Get(action.amount),
                                      expense |-> action.tx_type = Some(EXPENSE)]>>)}

----------------------------------------------------------------------------
(* Actions: one per turn. A turn is one step: no other turn runs between   *)
(* its reading of last_tx and its writes                                   *)

HandleText(user_id, text, resp) ==
  /\ text # <<>>
  /\ \E last_tx \in DbGetLast(transactions, user_id) :
       \E out \in Dispatch(transactions, now, user_id, text, resp, last_tx) :
         /\ Len(out.rows) <= MaxRows
         /\ transactions' = out.rows
         /\ call' = [op |-> "handle_text", user_id |-> user_id, text |-> text,
                     resp |-> resp, last_tx |-> last_tx, sent |-> out.sent,
                     raised |-> out.raised]
  /\ UNCHANGED <<now, turns>>

HandlePhoto(user_id, resp) ==
  /\ \E out \in PhotoOutcomes(transactions, now, user_id, resp) :
       /\ Len(out.rows) <= MaxRows
       /\ transactions' = out.rows
       /\ call' = [op |-> "handle_photo", user_id |-> user_id, resp |-> resp,
                   sent |-> out.sent, raised |-> out.raised]
  /\ UNCHANGED <<now, turns>>

----------------------------------------------------------------------------
(* Actions: a text turn in two steps. Other turns run while the turn awaits *)
(* the model (ai.parse): the turn reads last_tx, and when the response     *)
(* arrives it resolves the action and runs the handler. A handler makes at *)
(* most one writing call of the database, so its effects are one step      *)

\* context = {"last_tx": last_tx} if last_tx else None
Context(last_tx) ==
  IF "id" \in DOMAIN last_tx THEN [last_tx |-> last_tx] ELSE None

\* Referent that reads the last transaction again when the response arrives
ReferentReread(rs, turn) == CHOOSE last_tx \in DbGetLast(rs, turn.user_id) : TRUE

\* the last_tx that handle_text hands to the handler
Referent(rs, turn) == turn.last_tx

\* handle_text up to the request to the model
BeginText(user_id, text) ==
  /\ text # <<>>
  /\ Len(turns) < MaxTurns
  /\ \E last_tx \in DbGetLast(transactions, user_id) :
       /\ turns' = Append(turns, [user_id |-> user_id, text |-> text,
                                  last_tx |-> last_tx,
                                  context |-> Context(last_tx), done |-> FALSE,
                                  resp |-> Nil, sent |-> <<>>, raised |-> Nil])
       /\ call' = [op |-> "begin_text", user_id |-> user_id, text |-> text,
                   last_tx |-> last_tx]
  /\ UNCHANGED <<transactions, now>>

\* handle_text from the response of the model on
FinishText(i, resp) ==
  /\ i \in 1..Len(turns)
  /\ ~turns[i].done
  /\ \E out \in Dispatch(transactions, now, turns[i].user_id, turns[i].text,
                         resp, Referent(transactions, turns[i])) :
       /\ Len(out.rows) <= MaxRows
       /\ transactions' = out.rows
       /\ turns' = [turns EXCEPT ![i] = [@ EXCEPT !.done = TRUE, !.resp = resp,
                                                  !.sent = out.sent,
                                                  !.raised = out.raised]]
       /\ call' = [op |-> "finish_text", turn |-> i,
                   user_id |-> turns[i].user_id, text |-> turns[i].text,
                   resp |-> resp, last_tx |-> turns[i].last_tx,
                   sent |-> out.sent, raised |-> out.raised]
  /\ UNCHANGED now

\* the JSON object of an action kind with the given keys
Data(kind, fields) ==
  [k \in Keys |-> IF k = "action" THEN JVal(kind)
                  ELSE IF k \in DOMAIN fields THEN fields[k]
                  ELSE EmptyData[k]]

----------------------------------------------------------------------------
(* EXPORT turns over ledgers written by INSERT and DELETE turns            *)

NextExport ==
  \/ /\ Len(transactions) < MaxExpRows
     /\ \E u \in Users, t \in {<<"a">>, <<"a", "\n", "b">>} :
          HandleText(u, t, Data("insert", [amount |-> JVal(5)]))
  \/ \E i \in 1..MaxExpRows :
       HandleText(1, <<"x">>, Data("delete", [transaction_id |-> JVal(i)]))
  \/ \E u \in Users : HandleText(u, <<"e">>, Data("export", <<>>))

SpecExport == Init /\ [][NextExport]_vars

----------------------------------------------------------------------------
(* Turns of every action kind, text and photo, over the amounts the        *)
(* resolver may deliver                                                    *)

Amounts == {Absent, JNull, JVal(0), JVal(-5), JVal(5)}

NextTurns ==
  \/ /\ Len(transactions) < MaxTurnRows
     /\ \E u \in Users, a \in Amounts :
          HandleText(u, <<" ", "a">>, Data("insert", [amount |-> a]))
  \/ \E u \in Users, a \in Amounts, k \in {"insert", "delete"} :
       HandlePhoto(u, Data(k, [amount |-> a]))
  \/ \E r \in {Raised("APIError"), Data("insert", [date_offset |-> JNull])} :
       HandlePhoto(1, r)
  \/ \E i \in {Absent, JVal(1)}, a \in {Absent, JVal(7)} :
       HandleText(1, <<"u">>, Data("update", [transaction_id |-> i, amount |-> a]))
  \/ \E k \in {"delete", "undo"}, i \in {Absent, JVal(1)} :
       HandleText(1, <<"d">>, Data(k, [transaction_id |-> i]))
  \/ \E l \in {Absent, JNull, JVal(1)} :
       HandleText(1, <<"q">>, Data("query", [limit |-> l]))
  \/ \E t \in {Absent, JVal("week"), JVal("month")} :
       HandleText(1, <<"r">>, Data("report", [report_type |-> t]))
  \/ \E k \in {"export", "help", "unknown", "other"} :
       HandleText(1, <<"x">>, Data(k, <<>>))
  \/ \E t \in {<<"c">>, Confirm} : HandleText(1, t, Data("clear", <<>>))
  \/ \E r \in {Raised("APIError"), Data("insert", [date_offset |-> JNull])} :
       HandleText(1, <<"e">>, r)

SpecTurns == Init /\ [][NextTurns]_vars

----------------------------------------------------------------------------
(* UPDATE, DELETE and UNDO turns with and without an id and a keyword,     *)
(* over rows written within one second and across seconds                  *)

NextTarget ==
  \/ Tick
  \/ /\ Len(transactions) < MaxTgtRows
     /\ \/ \E t \in {<<"a">>, <<"b">>} :
             HandleText(1, t, Data("insert", [amount |-> JVal(5)]))
        \/ HandleText(2, <<"a">>, Data("insert", [amount |-> JVal(5)]))
  \/ \E i \in {Absent, JVal(1)}, kw \in {Absent, JVal(<<"a">>), JVal(<<"z">>)} :
       HandleText(1, <<"u">>, Data("update", [transaction_id |-> i, keyword |-> kw,
                                              amount |-> JVal(7)]))
  \/ \E i \in {Absent, JVal(0), JVal(1)}, kw \in {Absent, JVal(<<"a">>)} :
       HandleText(1, <<"d">>, Data("delete", [transaction_id |-> i, keyword |-> kw]))
  \/ HandleText(1, <<"d">>, Data("undo", [keyword |-> JVal(<<"a">>)]))

SpecTarget == Init /\ [][NextTarget]_vars

----------------------------------------------------------------------------
(* CLEAR turns whose text holds a confirmation token or none, after turns  *)
(* whose text held one                                                     *)

ClearTexts ==
  {<<"x", "o", "a">>, <<"c", "o", "n", "f", "i", "r">>, Confirm,
   <<"C", "o", "n", "f", "i", "r", "m", "!">>, <<"o", "k", " ">> \o XacNhan}

NextClear ==
  \/ /\ Len(transactions) < MaxClrRows
     /\ \E u \in Users, t \in {<<"a">>, Confirm} :
          HandleText(u, t, Data("insert", [amount |-> JVal(5)]))
  \/ \E u \in Users, t \in ClearTexts : HandleText(u, t, Data("clear", <<>>))

SpecClear == Init /\ [][NextClear]_vars

----------------------------------------------------------------------------
(* QUERY turns over the limits the resolver may deliver: absent (10),      *)
(* zero, negative, small and large                                         *)

NextQuery ==
  \/ Tick
  \/ /\ Len(transactions) < MaxQryRows
     /\ \E u \in Users :
          HandleText(u, <<"a">>, Data("insert", [amount |-> JVal(5)]))
  \/ \E i \in 1..MaxQryRows :
       HandleText(1, <<"d">>, Data("delete", [transaction_id |-> JVal(i)]))
  \/ \E u \in Users, l \in {Absent, JVal(0), JVal(-1), JVal(1), JVal(100)} :
       HandleText(u, <<"q">>, Data("query", [limit |-> l]))

SpecQuery == Init /\ [][NextQuery]_vars

----------------------------------------------------------------------------
(* Turns whose model response is a text: a JSON object alone, in a fence,  *)
(* between braces in prose, no JSON, and JSON that is no object            *)

\* {"action":"insert","amount":5}
RespInsert ==
  <<"{", "\"", "a", "c", "t", "i", "o", "n", "\"", ":", "\"", "i", "n", "s",
    "e", "r", "t", "\"", ",", "\"", "a", "m", "o", "u", "n", "t", "\"", ":",
    "5", "}">>

\*  {"action" : "help" , "amount" : -5 }\n
RespSpaced ==
  <<" ", "{", "\"", "a", "c", "t", "i", "o", "n", "\"", " ", ":", " ", "\"",
    "h", "e", "l", "p", "\"", " ", ",", " ", "\"", "a", "m", "o", "u", "n",
    "t", "\"", " ", ":", " ", "-", "5", " ", "}", "\n">>

\* ```json\n{"action":"query","limit":1}\n```
RespFenced ==
  <<Backtick, Backtick, Backtick, "j", "s", "o", "n", "\n", "{", "\"", "a",
    "c", "t", "i", "o", "n", "\"", ":", "\"", "q", "u", "e", "r", "y", "\"",
    ",", "\"", "l", "i", "m", "i", "t", "\"", ":", "1", "}", "\n", Backtick,
    Backtick, Backtick>>

\* ok ```{"action":"help"}``` {"action":"query"}
RespFencedFirst ==
  <<"o", "k", " ", Backtick, Backtick, Backtick, "{", "\"", "a", "c", "t",
    "i", "o", "n", "\"", ":", "\"", "h", "e", "l", "p", "\"", "}", Backtick,
    Backtick, Backtick, " ", "{", "\"", "a", "c", "t", "i", "o", "n", "\"",
    ":", "\"", "q", "u", "e", "r", "y", "\"", "}">>

\* x {"action":"insert","amount":5} y
RespBraced ==
  <<"x", " ", "{", "\"", "a", "c", "t", "i", "o", "n", "\"", ":", "\"", "i",
    "n", "s", "e", "r", "t", "\"", ",", "\"", "a", "m", "o", "u", "n", "t",
    "\"", ":", "5", "}", " ", "y">>

\* ``` x ``` {"action":"help"}
RespFencedBad ==
  <<Backtick, Backtick, Backtick, " ", "x", " ", Backtick, Backtick,
    Backtick, " ", "{", "\"", "a", "c", "t", "i", "o", "n", "\"", ":", "\"",
    "h", "e", "l", "p", "\"", "}">>

\* xyz
RespProse ==
  <<"x", "y", "z">>

\* {"type":1} {"action":"help"}
RespTwoObjects ==
  <<"{", "\"", "t", "y", "p", "e", "\"", ":", "1", "}", " ", "{", "\"", "a",
    "c", "t", "i", "o", "n", "\"", ":", "\"", "h", "e", "l", "p", "\"", "}">>

\* {"action":"pay"}
RespUnrecognized ==
  <<"{", "\"", "a", "c", "t", "i", "o", "n", "\"", ":", "\"", "p", "a", "y",
    "\"", "}">>

\* {"amount":5}
RespNoAction ==
  <<"{", "\"", "a", "m", "o", "u", "n", "t", "\"", ":", "5", "}">>

\* []
RespArray ==
  <<"[", "]">>

\* 1
RespNumber ==
  <<"1">>

\* ```\n[]\n``` {"action":"help"}
RespFencedArray ==
  <<Backtick, Backtick, Backtick, "\n", "[", "]", "\n", Backtick, Backtick,
    Backtick, " ", "{", "\"", "a", "c", "t", "i", "o", "n", "\"", ":", "\"",
    "h", "e", "l", "p", "\"", "}">>

\* {"action":"insert","date_offset":null,"amount":5}
RespNullOffset ==
  <<"{", "\"", "a", "c", "t", "i", "o", "n", "\"", ":", "\"", "i", "n", "s",
    "e", "r", "t", "\"", ",", "\"", "d", "a", "t", "e", "_", "o", "f", "f",
    "s", "e", "t", "\"", ":", "n", "u", "l", "l", ",", "\"", "a", "m", "o",
    "u", "n", "t", "\"", ":", "5", "}">>

Responses ==
  {RespInsert, RespSpaced, RespFenced, RespFencedFirst,
   RespBraced, RespFencedBad, RespProse, RespTwoObjects,
   RespUnrecognized, RespNoAction, RespArray, RespNumber,
   RespFencedArray, RespNullOffset}

NextResolve ==
  \/ /\ Len(transactions) < MaxResRows
     /\ \E u \in Users : HandleText(u, <<"a">>, Text(RespInsert))
  \/ \E u \in Users, r \in Responses \ {RespInsert, RespBraced, RespNoAction} :
       HandleText(u, <<"b">>, Text(r))
  \/ \E u \in Users, r \in Responses : HandlePhoto(u, Text(r))

SpecResolve == Init /\ [][NextResolve]_vars

----------------------------------------------------------------------------
(* Text turns that overlap: inserts in one step, and turns that begin,     *)
(* await the model while others run, and finish                            *)

FlightResponses ==
  {Data("delete", <<>>), Data("undo", <<>>),
   Data("delete", [transaction_id |-> JVal(1)]), Data("update", <<>>),
   Raised("APIError")}

NextFlight ==
  \/ /\ Len(transactions) < MaxFltRows
     /\ \E u \in Users : HandleText(u, <<"a">>, Data("insert", [amount |-> JVal(5)]))
  \/ BeginText(1, <<"d">>)
  \/ \E i \in 1..MaxTurns, r \in FlightResponses : FinishText(i, r)

SpecFlight == Init /\ [][NextFlight]_vars

----------------------------------------------------------------------------
(* Turns whose response varies one field: date_offset, type, category      *)

\* the category names; a letter outside Latin-1 is written by its code point
EXPENSE_CATEGORIES ==
  {"U+0102n uU+1ED1ng", "Di chuyU+1EC3n", "Mua sU+1EAFm", "GiU+1EA3i trí",
   "Hóa U+0111U+01A1n", "SU+1EE9c khU+1ECFe", "HU+1ECDc tU+1EADp",
   "Quà tU+1EB7ng", "Khác"}
INCOME_CATEGORIES ==
  {"LU+01B0U+01A1ng", "ThU+01B0U+1EDFng", "Thu khác"}
ALL_CATEGORIES == EXPENSE_CATEGORIES \cup INCOME_CATEGORIES

Offsets == {Absent, JNull, JVal(0), JVal(1), JVal(32), JVal(-1)}
Types == {Absent, JNull, JVal(""), JVal(INCOME), JVal(EXPENSE), JVal("pay")}
Categories == {Absent, JNull, JVal(""), JVal("Thu khác"), JVal("pay")}

\* the response of an INSERT of the amount 5 with one more field
InsertOf(fields) ==
  Data("insert", [k \in DOMAIN fields \cup {"amount"} |->
                    IF k = "amount" THEN JVal(5) ELSE fields[k]])

NextFields ==
  \/ /\ Len(transactions) < MaxFldRows
     /\ \/ HandleText(2, <<"a">>, InsertOf(<<>>))
        \/ \E o \in Offsets :
             HandleText(1, <<" ", "b">>, InsertOf([date_offset |-> o]))
        \/ \E t \in Types : HandleText(1, <<"c">>, InsertOf([type |-> t]))
        \/ \E c \in Categories :
             HandleText(1, <<"d">>, InsertOf([category |-> c]))
  \/ \E c \in {JNull, JVal("pay")} :
       \/ HandleText(1, <<"u">>, Data("update", [category |-> c]))
       \/ HandlePhoto(1, InsertOf([category |-> c]))

SpecFields == Init /\ [][NextFields]_vars

----------------------------------------------------------------------------
(* Properties of the turns *)

\* the action kind a text turn dispatched on ("raised" when parse raised)
TurnKind(c) == IF IsRaised(Parse(c.resp)) THEN "raised" ELSE Parse(c.resp).action

\* the state follows a text turn of one of the kinds
AfterText(kinds) == call.op = "handle_text" /\ TurnKind(call) \in kinds

\* the user's non-deleted rows
LiveRows(u) ==
  {i \in Ids(transactions) :
     transactions[i].user_id = u /\ ~transactions[i].is_deleted}

\* C12: an EXPORT turn replies "no data" and sends no file exactly when the
\* user has no non-deleted transaction; with at least one (also with exactly
\* one) it sends a CSV file of the header and one row per such transaction.
C12_Export ==
  AfterText({"export"}) =>
    /\ call.raised = Nil
    /\ Len(call.sent) = 1
    /\ IF LiveRows(call.user_id) = {}
       THEN call.sent[1].kind = "no_data"
       ELSE /\ call.sent[1].kind = "document"
            /\ Len(call.sent[1].csv) = 1 + Cardinality(LiveRows(call.user_id))

\* the step is a text turn of one of the kinds
IsText(kinds) == IsCall("handle_text") /\ TurnKind(call') \in kinds

\* the step is a photo turn whose action was resolved
IsPhoto == IsCall("handle_photo") /\ ~IsRaised(ParseImage(call'.resp))

\* an amount that is missing, zero or negative
BadAmount(o) == o = Nil \/ Get(o) <= 0

C13_InsertStep ==
  /\ (IsText({"insert"}) /\ BadAmount(Parse(call'.resp).amount)) =>
       /\ transactions' = transactions
       /\ call'.raised = Nil
       /\ call'.sent = <<Reply("amount_not_understood")>>
  /\ (IsPhoto /\ BadAmount(ParseImage(call'.resp).amount)) =>
       /\ transactions' = transactions
       /\ call'.raised = Nil
       /\ call'.sent[Len(call'.sent)] = Reply("cannot_read")

\* C13: an INSERT turn (text or photo) whose resolved amount is missing, zero
\* or negative leaves the ledger as it was and sends the correction prompt.
C13_InsertRejected == [][C13_InsertStep]_vars

\* C13 witness: a text INSERT turn with the amount -5 was answered by the
\* prompt while the ledger holds a row.
C13_Witness ==
  /\ AfterText({"insert"})
  /\ Parse(call.resp).amount = Some(-5)
  /\ call.sent = <<Reply("amount_not_understood")>>
  /\ Len(transactions) > 0

----------------------------------------------------------------------------
(* Properties of the target of UPDATE, DELETE and UNDO turns *)

\* the user's non-deleted rows whose note matches the keyword
KeywordRows(u, keyword) ==
  {i \in LiveRows(u) : NoteLike(transactions[i].note, keyword)}

\* the newest-created of a set of rows
Newest(S) ==
  {i \in S : \A j \in S : transactions[j].created_at <= transactions[i].created_at}

\* the ids the turn of call' may take as its target: the explicit id, else
\* the newest keyword match, else the last-transaction snapshot
Targets ==
  LET a == Parse(call'.resp)
  IN IF TruthyInt(a.transaction_id) THEN {Get(a.transaction_id)}
     ELSE IF TruthyText(a.keyword)
             /\ KeywordRows(call'.user_id, Get(a.keyword)) # {}
     THEN Newest(KeywordRows(call'.user_id, Get(a.keyword)))
     ELSE IF "id" \in DOMAIN call'.last_tx THEN {call'.last_tx.id}
     ELSE {}

C14_UpdateStep ==
  (IsText({"update"}) /\ Targets # {}) =>
    \E tx_id \in Targets :
      LET a == Parse(call'.resp)
          r == DbUpdate(transactions, now, tx_id, call'.user_id, a.amount,
                        a.category, Nil)
      IN /\ transactions' = r.rows
         /\ call'.raised = Nil
         /\ call'.sent = IF r.ret THEN <<[kind |-> "updated", tx_id |-> tx_id]>>
                         ELSE <<Reply("cannot_update")>>

\* C14: an UPDATE turn takes as its target the explicit id, else the newest
\* keyword match among the user's notes, else the last-transaction snapshot;
\* it updates that row with the action's amount and category and replies
\* success when the row is the user's and not deleted, "cannot update" when
\* the store update returns false.
C14_Update == [][C14_UpdateStep]_vars

C15_KeywordStep ==
  LET a == Parse(call'.resp)
  IN (/\ IsText({"update", "delete", "undo"})
      /\ ~TruthyInt(a.transaction_id)
      /\ TruthyText(a.keyword)
      /\ KeywordRows(call'.user_id, Get(a.keyword)) # {}) =>
       /\ \A i \in Ids(transactions) :
            transactions'[i] # transactions[i] =>
              i \in KeywordRows(call'.user_id, Get(a.keyword))
       /\ \A k \in 1..Len(call'.sent) :
            call'.sent[k].kind \in {"updated", "deleted"} =>
              call'.sent[k].tx_id \in KeywordRows(call'.user_id, Get(a.keyword))

\* C15: an UPDATE, DELETE or UNDO turn without an explicit id and with a
\* keyword that matches a note of the user changes and names no row but a
\* matching one: the last transaction is the target only when the keyword
\* matches nothing.
C15_KeywordFirst == [][C15_KeywordStep]_vars

C16_NotFoundStep ==
  (/\ IsText({"update", "delete", "undo"})
   /\ ~TruthyInt(Parse(call'.resp).transaction_id)
   /\ LiveRows(call'.user_id) = {}) =>
    /\ transactions' = transactions
    /\ call'.raised = Nil
    /\ call'.sent = IF TurnKind(call') = "update"
                    THEN <<Reply("update_not_found")>>
                    ELSE <<Reply("delete_not_found")>>

\* C16: an UPDATE, DELETE or UNDO turn without an explicit id, for a user
\* who has no non-deleted row (so no keyword match and no last transaction),
\* replies "not found" and leaves the ledger as it was.
C16_NotFound == [][C16_NotFoundStep]_vars

\* C16 witness: an UPDATE turn with the keyword "a" was answered "not found"
\* while the user's only row, whose note is "a", is deleted and another
\* user holds a row.
C16_Witness ==
  /\ AfterText({"update"})
  /\ Parse(call.resp).keyword = Some(<<"a">>)
  /\ call.sent = <<Reply("update_not_found")>>
  /\ \E i \in Ids(transactions) :
       /\ transactions[i].user_id = call.user_id
       /\ transactions[i].is_deleted
       /\ transactions[i].note = Some(<<"a">>)
  /\ \E i \in Ids(transactions) : transactions[i].user_id # call.user_id

----------------------------------------------------------------------------
(* Properties of CLEAR turns *)

\* the text holds "confirm" or "xác nhận", in any letter case
HasToken(text) ==
  \E token \in {Confirm, XacNhan} :
    \E k \in 0..(Len(text) - Len(token)) :
      \A j \in 1..Len(token) : LowerChar(text[k + j]) = token[j]

C17_ClearStep ==
  IsText({"clear"}) =>
    /\ call'.raised = Nil
    /\ IF HasToken(call'.text)
       THEN /\ Len(transactions') = Len(transactions)
            /\ \A i \in Ids(transactions) :
                 IF i \in LiveRows(call'.user_id)
                 THEN transactions'[i].is_deleted
                 ELSE transactions'[i] = transactions[i]
            /\ call'.sent = <<[kind |-> "cleared",
                               count |-> Cardinality(LiveRows(call'.user_id))]>>
       ELSE /\ transactions' = transactions
            /\ call'.sent = <<Reply("confirm_prompt")>>

\* C17: a CLEAR turn soft-deletes the user's rows only when the text of that
\* same turn holds a confirmation token ("confirm" or "xác nhận"); without
\* it the ledger stays as it was and the user is prompted again, whatever
\* the texts of earlier turns were.
C17_ClearConfirmed == [][C17_ClearStep]_vars

\* C17 witness: a CLEAR turn without the token was answered by the prompt
\* and left a row of the user in place, after an earlier confirmed CLEAR
\* turn deleted another row of the user.
C17_Witness ==
  /\ AfterText({"clear"})
  /\ call.text = <<"x", "o", "a">>
  /\ call.sent = <<Reply("confirm_prompt")>>
  /\ LiveRows(call.user_id) # {}
  /\ \E i \in Ids(transactions) :
       transactions[i].user_id = call.user_id /\ transactions[i].is_deleted

----------------------------------------------------------------------------
(* Properties of QUERY turns *)

\* the limit the turn requested: 10 when the resolver delivered none
RequestedLimit(c) ==
  IF Parse(c.resp).limit = Nil THEN 10 ELSE Get(Parse(c.resp).limit)

\* C18: a QUERY turn lists at most min(requested limit, 50) of the user's
\* non-deleted transactions, the most recently created first, and never more
\* than 50, for a large, zero, negative or absent limit; when it has nothing
\* to list it replies "no transactions yet".
C18_Query ==
  AfterText({"query"}) =>
    /\ call.raised = Nil
    /\ Len(call.sent) = 1
    /\ IF call.sent[1].kind = "history"
       THEN LET txs == call.sent[1].txs
            IN /\ Len(txs) >= 1
               /\ Len(txs) <= Min(RequestedLimit(call), 50)
               /\ Len(txs) <= 50
               /\ \A k \in 1..Len(txs) : txs[k].id \in LiveRows(call.user_id)
               /\ \A k \in 1..(Len(txs) - 1) :
                    txs[k].created_at >= txs[k + 1].created_at
       ELSE call.sent[1].kind = "no_transactions"

----------------------------------------------------------------------------
(* Properties of photo turns and of the end of every turn *)

C19_PhotoStep ==
  (IsPhoto /\ ~BadAmount(ParseImage(call'.resp).amount)) =>
    LET a == ParseImage(call'.resp)
        n == Len(transactions')
    IN /\ n = Len(transactions) + 1
       /\ SubSeq(transactions', 1, n - 1) = transactions
       /\ transactions'[n].user_id = call'.user_id
       /\ transactions'[n].amount = Get(a.amount)
       /\ transactions'[n].category = "Khác"
       /\ transactions'[n].type = EXPENSE
       /\ ~transactions'[n].is_deleted
       /\ call'.raised = Nil
       /\ call'.sent[Len(call'.sent)].kind = "inserted_from_bill"
       /\ call'.sent[Len(call'.sent)].tx_id = n

\* C19: a photo turn is handled as INSERT whatever action kind the model
\* reports; with a resolved amount > 0 (and no category or type) it adds
\* exactly one transaction of the sender, of category "Khác" and type
\* EXPENSE, and replies with a confirmation that carries the new id.
C19_PhotoInsert == [][C19_PhotoStep]_vars

\* C20: no turn ends in an uncaught exception: every text turn and every
\* photo turn ends with a reply to the user.
C20_TurnReplies ==
  call.op \in {"handle_text", "handle_photo"} =>
    /\ call.raised = Nil
    /\ call.sent # <<>>

----------------------------------------------------------------------------
(* Properties of the resolver *)

\* the state follows a turn whose model response was a text
AfterResponse ==
  call.op \in {"handle_text", "handle_photo"} /\ "text" \in DOMAIN call.resp

\* the action the resolver gives for the response before parse_image sets
\* its kind
Resolved(c) == Parse(c.resp)

\* C21: the resolver raises on no model response; when none of the three
\* extraction strategies yields JSON the action has kind UNKNOWN and no other
\* field set, and an unrecognized action string yields UNKNOWN too.
C21_ResolverTotal ==
  AfterResponse =>
    /\ ~IsRaised(Resolved(call))
    /\ (\A k \in 1..3 : ~Attempts(call.resp.text)[k].ok) =>
         Resolved(call) = AIAction("unknown", Nil, Nil, Nil, 0, Nil, Some(Today),
                                   Nil, Nil, Nil, Some(10), Nil)
    /\ (/\ "action" \in DOMAIN ExtractJson(call.resp.text)
        /\ DictGet(ExtractJson(call.resp.text), "action") \notin
             {Some(k) : k \in ActionType}) =>
         Resolved(call).action = "unknown"

----------------------------------------------------------------------------
(* Properties of overlapping text turns *)

\* the step finishes the text turn i
Finishes(i) == i \in 1..Len(turns) /\ ~turns[i].done /\ turns'[i].done

\* the rows other than tx_id are as they were
OthersKept(tx_id) ==
  /\ Len(transactions') = Len(transactions)
  /\ \A r \in Ids(transactions) \ {tx_id} : transactions'[r] = transactions[r]

\* a DELETE or UNDO turn without transaction_id acts on the snapshot
DeletesSnapshot(t) ==
  IF "id" \in DOMAIN t.last_tx
  THEN /\ t.sent \in {<<[kind |-> "deleted", tx_id |-> t.last_tx.id]>>,
                      <<Reply("cannot_delete")>>}
       /\ OthersKept(t.last_tx.id)
  ELSE t.sent = <<Reply("delete_not_found")>> /\ transactions' = transactions

C22_SnapshotStep ==
  /\ \A i \in 1..Len(turns') : turns'[i].context = Context(turns'[i].last_tx)
  /\ \A i \in 1..Len(turns) :
       /\ turns'[i].last_tx = turns[i].last_tx
       /\ turns'[i].context = turns[i].context
  /\ Len(turns') > Len(turns) =>
       /\ turns'[Len(turns')].last_tx \in
            DbGetLast(transactions, turns'[Len(turns')].user_id)
       /\ ~turns'[Len(turns')].done
  /\ \A i \in 1..Len(turns) :
       (Finishes(i) /\ ~IsRaised(Parse(turns'[i].resp))) =>
         LET t == turns'[i]
             a == Parse(t.resp)
         IN /\ (a.action \in {"delete", "undo"} /\ ~TruthyInt(a.transaction_id))
                 => DeletesSnapshot(t)
            /\ (/\ a.action = "update"
                /\ ~TruthyInt(a.transaction_id)
                /\ ~TruthyText(a.keyword))
                 => (t.sent = <<Reply("update_not_found")>>
                       <=> "id" \notin DOMAIN t.last_tx)

\* C22: a text turn reads the last transaction once, before the request to
\* the model; that snapshot is the context given to the model and the
\* referent of UPDATE, DELETE and UNDO, also when other turns insert or
\* delete rows of the user while the turn awaits the model; the snapshot is
\* never read again during the turn.
C22_Snapshot == [][C22_SnapshotStep]_vars

\* a DELETE or UNDO turn found its snapshot deleted by another turn while the
\* user had another live row
C22_Witness ==
  /\ call.op = "finish_text"
  /\ TurnKind(call) \in {"delete", "undo"}
  /\ ~TruthyInt(Parse(call.resp).transaction_id)
  /\ "id" \in DOMAIN call.last_tx
  /\ transactions[call.last_tx.id].is_deleted
  /\ call.sent = <<Reply("cannot_delete")>>
  /\ LiveRows(call.user_id) # {}

\* the finished DELETE and UNDO turns of a user that resolved to the row
DeleteTurns(ts, u, tx_id) ==
  {i \in 1..Len(ts) :
     /\ ts[i].done /\ ts[i].user_id = u
     /\ TurnKind(ts[i]) \in {"delete", "undo"}
     /\ DeleteTarget(Parse(ts[i].resp), ts[i].last_tx) = Some(tx_id)}

\* two DELETE or UNDO turns of one user that overlapped and resolved to the
\* same row: both read it as the last transaction, so it was live when both
\* had begun, and no third turn resolved to it
RacingPairs(ts) ==
  {p \in (1..Len(ts)) \X (1..Len(ts)) :
     /\ p[1] < p[2]
     /\ ts[p[1]].done /\ ts[p[2]].done
     /\ "id" \in DOMAIN ts[p[1]].last_tx /\ "id" \in DOMAIN ts[p[2]].last_tx
     /\ ts[p[1]].last_tx.id = ts[p[2]].last_tx.id
     /\ DeleteTurns(ts, ts[p[1]].user_id, ts[p[1]].last_tx.id) = {p[1], p[2]}}

\* the row the pair resolved to
RaceRow(ts, p) == ts[p[1]].last_tx.id

C23_RaceStep ==
  /\ \A p \in RacingPairs(turns') :
       LET deleted == <<[kind |-> "deleted", tx_id |-> RaceRow(turns', p)]>>
           failed == <<Reply("cannot_delete")>>
       IN /\ {turns'[p[1]].sent, turns'[p[2]].sent} = {deleted, failed}
          /\ turns'[p[1]].raised = Nil /\ turns'[p[2]].raised = Nil
          /\ transactions'[RaceRow(turns', p)].is_deleted
  /\ \A i \in 1..Len(turns) :
       (Finishes(i) /\ TurnKind(turns'[i]) \in {"delete", "undo"}) =>
         LET tx_id == DeleteTarget(Parse(turns'[i].resp), turns'[i].last_tx)
         IN IF tx_id = Nil THEN transactions' = transactions
            ELSE OthersKept(Get(tx_id))

----------------------------------------------------------------------------
(* Properties of the fields of an inserted transaction *)

\* the step is a text turn whose response asks for an INSERT of an amount
\* above zero
AsksInsert ==
  /\ IsCall("handle_text")
  /\ ~IsRaised(call'.resp)
  /\ DictGet(call'.resp, "action") = Some("insert")
  /\ ~BadAmount(DictGet(call'.resp, "amount"))

\* the row that the step appended
NewRow == transactions'[Len(transactions')]

Appends ==
  /\ Len(transactions') = Len(transactions) + 1
  /\ SubSeq(transactions', 1, Len(transactions)) = transactions

C24_DateStep ==
  AsksInsert =>
    LET o == DictGet(call'.resp, "date_offset")
    IN /\ Appends
       /\ NewRow.transaction_date = MinusDays(Today, IF IsSome(o) THEN Get(o) ELSE 0)
       /\ NewRow.note = Some(Strip(call'.text))

\* C24: the transaction of a text INSERT turn is dated today minus the
\* date_offset of the response, today when date_offset is absent or null, and
\* its note is the text of the message.
C24_InsertDate == [][C24_DateStep]_vars

\* the type of the response is absent or none of the recognized values
NoType(resp) == DictGet(resp, "type") \notin {Some(t) : t \in TransactionType}

C25_TypeStep ==
  (AsksInsert /\ NoType(call'.resp)) =>
    /\ ~IsRaised(Parse(call'.resp))
    /\ Parse(call'.resp).tx_type = Some(EXPENSE)
    /\ Appends
    /\ NewRow.type = EXPENSE
    /\ call'.sent # <<>>
    /\ call'.sent[1].kind = "inserted"
    /\ call'.sent[1].expense

\* C25: when the type of the response is absent or not a recognized value,
\* the resolved action has type EXPENSE, and the stored transaction and the
\* direction shown in the INSERT confirmation are EXPENSE.
C25_DefaultType == [][C25_TypeStep]_vars

\* C26: the category of every stored transaction is one of the twelve of the
\* vocabulary: a category outside it (or none) on an INSERT, UPDATE or photo
\* turn is stored as the fallback, and no new category value is created.
C26_Vocabulary ==
  \A i \in Ids(transactions) : transactions[i].category \in ALL_CATEGORIES

----------------------------------------------------------------------------
(* Frame of the turns *)

\* the step is a text or photo turn
IsTurn == IsCall("handle_text") \/ IsCall("handle_photo")

\* the turn of the step cannot write: its model call failed or its action
\* did not resolve, or it is a QUERY, REPORT, EXPORT, HELP or UNKNOWN turn,
\* or a CLEAR turn without the confirmation token
ReadOnlyTurn ==
  \/ /\ IsCall("handle_photo")
     /\ IsRaised(ParseImage(call'.resp))
  \/ /\ IsCall("handle_text")
     /\ \/ TurnKind(call') \in {"raised", "query", "report", "export", "help",
                                "unknown"}
        \/ TurnKind(call') = "clear" /\ ~HasToken(call'.text)

C27_FrameStep ==
  /\ ReadOnlyTurn => transactions' = transactions
  /\ IsTurn =>
       /\ Len(transactions') >= Len(transactions)
       /\ \A r \in Ids(transactions') :
            \/ r \in Ids(transactions) /\ transactions'[r] = transactions[r]
            \/ transactions'[r].user_id = call'.user_id

\* C27: QUERY, REPORT, EXPORT, HELP and UNKNOWN turns, and turns whose
\* model call fails, leave the table as it was; only INSERT, UPDATE, DELETE,
\* UNDO, confirmed CLEAR and photo turns change a row, and a turn changes
\* rows of its own user only.
C27_Frame == [][C27_FrameStep]_vars

\* a DELETE turn named the live row of another user and left it as it was
C27_Witness ==
  /\ AfterText({"delete"})
  /\ TruthyInt(Parse(call.resp).transaction_id)
  /\ Get(Parse(call.resp).transaction_id) \in Ids(transactions)
  /\ transactions[Get(Parse(call.resp).transaction_id)].user_id # call.user_id
  /\ ~transactions[Get(Parse(call.resp).transaction_id)].is_deleted
  /\ call.sent = <<Reply("cannot_delete")>>

====
